---- MODULE Spec2Model ----
(***************************************************************************)
(* A model of scripts/converter.js: the componentization and code          *)
(* generation engine that turns parsed HTML trees into JSX components.     *)
(*                                                                         *)
(* Strings whose inside the code inspects (names, attribute keys and       *)
(* values, class lists, text) are sequences of one-character strings, so   *)
(* that split, trim, sort, replace and concatenation are computed and not  *)
(* assumed.  Fixed pieces of generated text ("className", " || ", ...) are *)
(* single elements of such a sequence.                                     *)
(***************************************************************************)
EXTENDS Integers, Sequences, FiniteSets, TLC

(***************************************************************************)
(* Characters and JavaScript string primitives                             *)
(***************************************************************************)

\* The characters of the model in UTF-16 code unit order (what the default
\* Array.prototype.sort and String comparison use).
Ascii ==
  << "\n", " ", "\"", "'", "-", ".", "/",
     "0", "1", "2", "3", "4", "5", "6", "7", "8", "9", ":", ";", "<", "=", ">",
     "A", "B", "C", "D", "E", "F", "G", "H", "I", "J", "K", "L", "M",
     "N", "O", "P", "Q", "R", "S", "T", "U", "V", "W", "X", "Y", "Z",
     "\\", "_",
     "a", "b", "c", "d", "e", "f", "g", "h", "i", "j", "k", "l", "m",
     "n", "o", "p", "q", "r", "s", "t", "u", "v", "w", "x", "y", "z",
     "{", "|", "}" >>

LowerCase ==
  << "a", "b", "c", "d", "e", "f", "g", "h", "i", "j", "k", "l", "m",
     "n", "o", "p", "q", "r", "s", "t", "u", "v", "w", "x", "y", "z" >>

UpperCase ==
  << "A", "B", "C", "D", "E", "F", "G", "H", "I", "J", "K", "L", "M",
     "N", "O", "P", "Q", "R", "S", "T", "U", "V", "W", "X", "Y", "Z" >>

Digits == << "0", "1", "2", "3", "4", "5", "6", "7", "8", "9" >>

Range(s) == { s[i] : i \in 1..Len(s) }

IndexIn(c, s) == CHOOSE i \in 1..Len(s) : s[i] = c

CharCode(c) == IndexIn(c, Ascii)

IsLower(c) == c \in Range(LowerCase)
IsUpper(c) == c \in Range(UpperCase)
IsAlnum(c) == IsLower(c) \/ IsUpper(c) \/ c \in Range(Digits)

\* \s of a regular expression, String.prototype.trim
IsSpace(c) == c \in {" ", "\n"}

toUpperCase(c) == IF IsLower(c) THEN UpperCase[IndexIn(c, LowerCase)] ELSE c
toLowerCase(c) == IF IsUpper(c) THEN LowerCase[IndexIn(c, UpperCase)] ELSE c

LowerStr(s) == [i \in 1..Len(s) |-> toLowerCase(s[i])]

\* a < b for two JavaScript strings
RECURSIVE StrLess(_, _)
StrLess(a, b) ==
  IF b = <<>> THEN FALSE
  ELSE IF a = <<>> THEN TRUE
  ELSE IF a[1] = b[1] THEN StrLess(Tail(a), Tail(b))
  ELSE CharCode(a[1]) < CharCode(b[1])

\* Array.prototype.sort() without a comparator, on an array of strings
RECURSIVE InsertSorted(_, _)
InsertSorted(x, s) ==
  IF s = <<>> THEN <<x>>
  ELSE IF StrLess(x, s[1]) THEN <<x>> \o s
  ELSE <<s[1]>> \o InsertSorted(x, Tail(s))

RECURSIVE SortStrs(_)
SortStrs(s) ==
  IF s = <<>> THEN <<>>
  ELSE InsertSorted(s[Len(s)], SortStrs(SubSeq(s, 1, Len(s) - 1)))

\* Array.prototype.join(sep) on an array of strings
RECURSIVE Join(_, _)
Join(parts, sep) ==
  IF parts = <<>> THEN <<>>
  ELSE IF Len(parts) = 1 THEN parts[1]
  ELSE parts[1] \o sep \o Join(Tail(parts), sep)

\* The concatenation of an array of strings: join('')
Concat(parts) == Join(parts, <<>>)

\* String.prototype.split(/[seps]+/): every maximal run of separators separates
RECURSIVE SplitRunsFrom(_, _, _, _)
SplitRunsFrom(s, seps, i, cur) ==
  IF i > Len(s) THEN <<cur>>
  ELSE IF s[i] \in seps
    THEN IF i < Len(s) /\ s[i + 1] \in seps
           THEN SplitRunsFrom(s, seps, i + 1, cur)
           ELSE <<cur>> \o SplitRunsFrom(s, seps, i + 1, <<>>)
    ELSE SplitRunsFrom(s, seps, i + 1, Append(cur, s[i]))

\* String.prototype.split(/\s+/)
SplitWs(s) == SplitRunsFrom(s, {" ", "\n"}, 1, <<>>)

\* String.prototype.split(sepChar): every single occurrence separates
RECURSIVE SplitCharFrom(_, _, _, _)
SplitCharFrom(s, c, i, cur) ==
  IF i > Len(s) THEN <<cur>>
  ELSE IF s[i] = c THEN <<cur>> \o SplitCharFrom(s, c, i + 1, <<>>)
  ELSE SplitCharFrom(s, c, i + 1, Append(cur, s[i]))

SplitChar(s, c) == SplitCharFrom(s, c, 1, <<>>)

\* Array.prototype.filter(Boolean) on an array of strings
RECURSIVE FilterNonEmpty(_)
FilterNonEmpty(parts) ==
  IF parts = <<>> THEN <<>>
  ELSE (IF parts[1] = <<>> THEN <<>> ELSE <<parts[1]>>)
         \o FilterNonEmpty(Tail(parts))

RECURSIVE TrimStart(_)
TrimStart(s) ==
  IF s # <<>> /\ IsSpace(s[1]) THEN TrimStart(Tail(s)) ELSE s

RECURSIVE TrimEnd(_)
TrimEnd(s) ==
  IF s # <<>> /\ IsSpace(s[Len(s)])
    THEN TrimEnd(SubSeq(s, 1, Len(s) - 1)) ELSE s

\* String.prototype.trim
Trim(s) == TrimEnd(TrimStart(s))

StartsWith(s, p) == Len(s) >= Len(p) /\ SubSeq(s, 1, Len(p)) = p

\* String.prototype.includes
Includes(s, sub) ==
  \E i \in 0..(Len(s) - Len(sub)) : SubSeq(s, i + 1, i + Len(sub)) = sub

\* Array.prototype.includes
Contains(arr, x) == \E i \in 1..Len(arr) : arr[i] = x

\* String(n) for a number n >= 0
RECURSIVE NumToStr(_)
NumToStr(n) ==
  IF n < 10 THEN <<Digits[n + 1]>>
  ELSE NumToStr(n \div 10) \o <<Digits[(n % 10) + 1]>>

\* str.replace(/x/g, by): every occurrence of the one character x
RECURSIVE ReplaceChar(_, _, _)
ReplaceChar(s, x, by) ==
  IF s = <<>> THEN <<>>
  ELSE (IF s[1] = x THEN by ELSE <<s[1]>>) \o ReplaceChar(Tail(s), x, by)

RECURSIVE FilterChars(_, _)
FilterChars(keep, s) ==
  IF s = <<>> THEN <<>>
  ELSE (IF s[1] \in keep THEN <<s[1]>> ELSE <<>>) \o FilterChars(keep, Tail(s))

(***************************************************************************)
(* Naming helpers                                                          *)
(***************************************************************************)

\* str.replace(/[-_ ]+([a-zA-Z0-9])/g, upper).replace(/^[A-Z]/, lower)
RECURSIVE CamelFrom(_, _)
CamelFrom(s, i) ==
  IF i > Len(s) THEN <<>>
  ELSE IF s[i] \in {"-", "_", " "}
    THEN LET j == CHOOSE k \in i..Len(s) :
                    /\ \A m \in i..k : s[m] \in {"-", "_", " "}
                    /\ (k = Len(s) \/ s[k + 1] \notin {"-", "_", " "})
         IN IF j < Len(s) /\ IsAlnum(s[j + 1])
              THEN <<toUpperCase(s[j + 1])>> \o CamelFrom(s, j + 2)
              ELSE <<s[i]>> \o CamelFrom(s, i + 1)
    ELSE <<s[i]>> \o CamelFrom(s, i + 1)

toCamelCase(str) ==
  LET c == CamelFrom(str, 1)
  IN IF c # <<>> /\ IsUpper(c[1]) THEN <<toLowerCase(c[1])>> \o Tail(c) ELSE c

Capitalize(w) == IF w = <<>> THEN w ELSE <<toUpperCase(w[1])>> \o Tail(w)

\* toPascalCase of a string (the callers never pass null or undefined)
toPascalCase(str) ==
  IF Trim(str) = <<>> THEN <<"U", "n", "n", "a", "m", "e", "d">>
  ELSE
    LET lowerAlnum == Range(LowerCase) \cup Range(Digits)
        cleaned == FilterChars(lowerAlnum, LowerStr(str))
        wordChars == lowerAlnum \cup Range(UpperCase) \cup {"_", "-", " ", "\n"}
        fallbackWords ==
          FilterNonEmpty(
            SplitRunsFrom(FilterChars(wordChars, str),
                          {" ", "\n", "_", "-"}, 1, <<>>))
        CapWord(w) == <<toUpperCase(w[1])>> \o LowerStr(Tail(w))
    IN IF cleaned # <<>> THEN Capitalize(cleaned)
       ELSE IF Len(fallbackWords) > 0
         THEN Concat([i \in 1..Len(fallbackWords) |-> CapWord(fallbackWords[i])])
       ELSE <<"U", "n", "n", "a", "m", "e", "d">> \o <<"C", "o", "m", "p", "o", "n", "e", "n", "t">>

\* str.replace(/-([a-z])/g, upper)
RECURSIVE kebabToCamelCase(_)
kebabToCamelCase(str) ==
  IF str = <<>> THEN <<>>
  ELSE IF str[1] = "-" /\ Len(str) >= 2 /\ IsLower(str[2])
    THEN <<toUpperCase(str[2])>> \o kebabToCamelCase(SubSeq(str, 3, Len(str)))
  ELSE <<str[1]>> \o kebabToCamelCase(Tail(str))

\* A naming that tries the suffix 1 only
FirstSuffixOnly(base, existingProps) ==
  IF base \in existingProps THEN base \o <<"1">> ELSE base

\* generatePropName(base, existingProps): existingProps a set of names
RECURSIVE PropNameFrom(_, _, _)
PropNameFrom(base, existingProps, count) ==
  IF (base \o NumToStr(count)) \in existingProps
    THEN PropNameFrom(base, existingProps, count + 1)
    ELSE base \o NumToStr(count)

generatePropName(base, existingProps) ==
  IF base \in existingProps THEN PropNameFrom(base, existingProps, 1) ELSE base

(***************************************************************************)
(* The tree model (htmlparser2 nodes as index.js stores them)              *)
(***************************************************************************)

\* attribs is the attribute object: its entries in insertion order, the keys
\* pairwise distinct.
Text(d) ==
  [type |-> "text", name |-> <<>>, attribs |-> <<>>, children |-> <<>>, data |-> d]
Comment(d) ==
  [type |-> "comment", name |-> <<>>, attribs |-> <<>>, children |-> <<>>, data |-> d]
Tag(n, a, k) ==
  [type |-> "tag", name |-> n, attribs |-> a, children |-> k, data |-> <<>>]
Attr(k, v) == [key |-> k, value |-> v]

\* Object.keys(node.attribs)
AttrKeys(node) == [i \in 1..Len(node.attribs) |-> node.attribs[i].key]

HasAttr(node, k) == \E i \in 1..Len(node.attribs) : node.attribs[i].key = k

\* node.attribs[k], for a key the node has
AttrVal(node, k) ==
  node.attribs[CHOOSE i \in 1..Len(node.attribs) : node.attribs[i].key = k].value

\* node.attribs?.[k] is truthy: present and not the empty string
AttrTruthy(node, k) == HasAttr(node, k) /\ AttrVal(node, k) # <<>>


\* The characters of a node type
TypeName(type) ==
  CASE type = "text" -> <<"t", "e", "x", "t">>
    [] type = "tag" -> <<"t", "a", "g">>
    [] type = "comment" -> <<"c", "o", "m", "m", "e", "n", "t">>
    [] type = "directive" -> <<"d", "i", "r", "e", "c", "t", "i", "v", "e">>
    [] type = "script" -> <<"s", "c", "r", "i", "p", "t">>
    [] type = "style" -> <<"s", "t", "y", "l", "e">>
    [] OTHER -> <<"r", "o", "o", "t">>

RECURSIVE getStructuralSignature(_)
getStructuralSignature(node) ==
  IF node.type \in {"text", "comment", "directive"} THEN TypeName(node.type)
  ELSE IF node.type \in {"tag", "script", "style"} THEN
    LET attrs == Join(SortStrs(AttrKeys(node)), <<",">>)
        classAttr ==
          IF AttrTruthy(node, <<"c", "l", "a", "s", "s">>)
            THEN <<"_", "C", "L", "A", "S", "S", "_">>
                   \o Join(SortStrs(SplitWs(AttrVal(node, <<"c", "l", "a", "s", "s">>))), <<"_">>)
            ELSE <<>>
        childrenSignatures ==
          Join([i \in 1..Len(node.children) |->
                  getStructuralSignature(node.children[i])], <<"|">>)
    IN node.name \o <<"[">> \o attrs \o classAttr \o <<"]", "(">>
         \o childrenSignatures \o <<")">>
  ELSE <<"U", "N", "K", "N", "O", "W", "N", "_", "T", "Y", "P", "E", "_">> \o TypeName(node.type)

\* (node.children || []).map(getStructuralSignature).join('|')
ChildrenSignature(node) ==
  Join([i \in 1..Len(node.children) |->
          getStructuralSignature(node.children[i])], <<"|">>)

(***************************************************************************)
(* Paths: the arrays ['children', 0, 'attribs', 'href'] of the code.  A    *)
(* path element is a property name (s) or an array index (n >= 0).         *)
(***************************************************************************)

PName(str) == [s |-> str, n |-> -1]
PIndex(i) == [s |-> <<>>, n |-> i]

P_children == PName(<<"c", "h", "i", "l", "d", "r", "e", "n">>)
P_attribs == PName(<<"a", "t", "t", "r", "i", "b", "s">>)

NoNode == Text(<<>>)
Undefined == [k |-> "undefined", node |-> NoNode, v |-> <<>>]

\* cur[p] for one path element p, cur a node, a children array, an attribs
\* object or a string
WalkStep(cur, p) ==
  CASE cur.k = "node" /\ p = P_children ->
         [k |-> "children", node |-> cur.node, v |-> <<>>]
    [] cur.k = "node" /\ p = P_attribs ->
         [k |-> "attribs", node |-> cur.node, v |-> <<>>]
    [] cur.k = "children" /\ p.n >= 0 /\ p.n < Len(cur.node.children) ->
         [k |-> "node", node |-> cur.node.children[p.n + 1], v |-> <<>>]
    [] cur.k = "attribs" /\ p.n < 0 /\ HasAttr(cur.node, p.s) ->
         [k |-> "value", node |-> NoNode, v |-> AttrVal(cur.node, p.s)]
    [] OTHER -> Undefined

\* path.forEach((p) => { if (x) x = x[p]; }) from node; the empty string is
\* falsy, so it is not stepped into
RECURSIVE WalkFrom(_, _)
WalkFrom(cur, path) ==
  IF path = <<>> THEN cur
  ELSE IF cur.k = "undefined" \/ (cur.k = "value" /\ cur.v = <<>>) THEN cur
  ELSE WalkFrom(WalkStep(cur, path[1]), Tail(path))

Walk(node, path) == WalkFrom([k |-> "node", node |-> node, v |-> <<>>], path)

(***************************************************************************)
(* dom-serializer's render(node, { xmlMode: true }).  The data of the      *)
(* model holds none of & < > ", on which alone its entity encoding acts.   *)
(***************************************************************************)

RECURSIVE RenderXml(_)
RenderXml(node) ==
  CASE node.type = "text" -> node.data
    [] node.type = "comment" -> <<"<!--">> \o node.data \o <<"-->">>
    [] node.type \in {"tag", "script", "style"} ->
         LET attrs ==
               Concat([i \in 1..Len(node.attribs) |->
                 <<" ">> \o node.attribs[i].key \o <<"=", "\"">>
                   \o node.attribs[i].value \o <<"\"">>])
             kids ==
               Concat([i \in 1..Len(node.children) |->
                         RenderXml(node.children[i])])
         IN IF node.children = <<>>
              THEN <<"<">> \o node.name \o attrs \o <<"/>">>
              ELSE <<"<">> \o node.name \o attrs \o <<">">> \o kids
                     \o <<"</">> \o node.name \o <<">">>
    [] OTHER -> <<>>

(***************************************************************************)
(* Prop inference                                                          *)
(***************************************************************************)

\* The first role keyword the lowered string includes, or <<>> for none
RoleOf(lowered) ==
  CASE Includes(lowered, <<"t", "i", "t", "l", "e">>) -> <<"t", "i", "t", "l", "e">>
    [] Includes(lowered, <<"l", "a", "b", "e", "l">>) -> <<"l", "a", "b", "e", "l">>
    [] Includes(lowered, <<"d", "e", "s", "c">>) ->
          <<"d", "e", "s", "c", "r", "i", "p", "t", "i", "o", "n">>
    [] Includes(lowered, <<"h", "e", "a", "d", "e", "r">>) -> <<"h", "e", "a", "d", "e", "r">>
    [] Includes(lowered, <<"f", "o", "o", "t", "e", "r">>) -> <<"f", "o", "o", "t", "e", "r">>
    [] Includes(lowered, <<"b", "u", "t", "t", "o", "n">>) ->
         <<"b", "u", "t", "t", "o", "n", "T", "e", "x", "t">>
    [] Includes(lowered, <<"c", "a", "p", "t", "i", "o", "n">>) ->
          <<"c", "a", "p", "t", "i", "o", "n">>
    [] Includes(lowered, <<"s", "u", "b", "t", "i", "t", "l", "e">>) ->
         <<"s", "u", "b", "t", "i", "t", "l", "e">>
    [] Includes(lowered, <<"i", "t", "e", "m">>) -> <<"i", "t", "e", "m", "T", "e", "x", "t">>
    [] OTHER -> <<>>

\* guessTextRoleFromClassOrId(node); <<>> stands for null
guessTextRoleFromClassOrId(node) ==
  LET candidates ==
        (IF HasAttr(node, <<"i", "d">>) THEN <<AttrVal(node, <<"i", "d">>)>> ELSE <<>>)
          \o (IF HasAttr(node, <<"c", "l", "a", "s", "s">>)
                THEN SplitWs(AttrVal(node, <<"c", "l", "a", "s", "s">>)) ELSE <<>>)
      hits == { i \in 1..Len(candidates) :
                  candidates[i] # <<>> /\ RoleOf(LowerStr(candidates[i])) # <<>> }
  IN IF hits = {} THEN <<>>
     ELSE RoleOf(LowerStr(candidates[CHOOSE i \in hits : \A j \in hits : i <= j]))

\* collectPaths(node, currentPath, callback): the callback's calls in order
RECURSIVE collectPaths(_, _)
collectPaths(node, currentPath) ==
  IF node.type = "tag" /\ node.name = <<"s", "v", "g">>
    THEN << [path |-> currentPath, value |-> RenderXml(node), type |-> "svg"] >>
    ELSE
      [i \in 1..Len(node.attribs) |->
         [path |-> currentPath \o <<P_attribs, PName(node.attribs[i].key)>>,
          value |-> node.attribs[i].value,
          type |-> "attribute"]]
      \o
      Concat([i \in 1..Len(node.children) |->
        LET child == node.children[i]
            childPath == currentPath \o <<P_children, PIndex(i - 1)>>
        IN IF child.type = "text" /\ Trim(child.data) # <<>>
             THEN << [path |-> childPath, value |-> Trim(child.data),
                      type |-> "textChild"] >>
           ELSE IF child.type = "tag" THEN collectPaths(child, childPath)
           ELSE <<>>])

\* Map.get(pathStr) on the map collectPaths fills for the template: the
\* last entry set for the path.  join('.') is one-to-one on these paths.
HasPath(entries, path) == \E i \in 1..Len(entries) : entries[i].path = path

EntryAt(entries, path) ==
  entries[CHOOSE i \in 1..Len(entries) :
            /\ entries[i].path = path
            /\ \A j \in 1..Len(entries) : entries[j].path = path => j <= i]

\* Set.prototype.add on a set kept in insertion order
SetAdd(vals, v) == IF Contains(vals, v) THEN vals ELSE Append(vals, v)

\* One callback call of the instances' loop (lines 220-234) on the map
\* differingPaths, kept in insertion order
RecordDifference(differingPaths, templateValues, e) ==
  IF HasPath(templateValues, e.path)
       /\ e.value = EntryAt(templateValues, e.path).value
    THEN differingPaths
    ELSE
      LET d0 == IF HasPath(differingPaths, e.path) THEN differingPaths
                ELSE Append(differingPaths,
                            [path |-> e.path, type |-> e.type, values |-> <<>>])
          k == CHOOSE i \in 1..Len(d0) : d0[i].path = e.path
          v1 == SetAdd(d0[k].values, e.value)
          v2 == IF HasPath(templateValues, e.path)
                  THEN SetAdd(v1, EntryAt(templateValues, e.path).value)
                  ELSE v1
      IN [d0 EXCEPT ![k].values = v2]

RECURSIVE RecordAll(_, _, _)
RecordAll(differingPaths, templateValues, entries) ==
  IF entries = <<>> THEN differingPaths
  ELSE RecordAll(RecordDifference(differingPaths, templateValues, entries[1]),
                 templateValues, Tail(entries))

\* The map differingPaths after the loop over the instances.  An instance
\* that is the template object itself is skipped; comparing the template
\* with an equal node records nothing either.
DifferingPaths(templateNode, instances) ==
  LET templateValues == collectPaths(templateNode, <<>>)
      entries ==
        Concat([i \in 1..Len(instances) |->
                  IF instances[i] = templateNode THEN <<>>
                  ELSE collectPaths(instances[i], <<>>)])
  IN RecordAll(<<>>, templateValues, entries)

\* basePropName of one differing path (lines 239-259) and the counter after
BasePropName(templateNode, d, propCounter) ==
  CASE d.type = "svg" -> [base |-> <<"i", "c", "o", "n", "S", "r", "c">>, counter |-> propCounter]
    [] d.type = "attribute" ->
         LET attrKey == d.path[Len(d.path)].s
             jsxCompliantAttrKey ==
               IF attrKey = <<"c", "l", "a", "s", "s">>
                 THEN <<"c", "l", "a", "s", "s", "N", "a", "m", "e">>
               ELSE IF attrKey = <<"f", "o", "r">> THEN <<"h", "t", "m", "l", "F", "o", "r">>
               ELSE attrKey
         IN [base |-> kebabToCamelCase(jsxCompliantAttrKey),
             counter |-> propCounter]
    [] d.type = "textChild" ->
         LET parentTagPath == SubSeq(d.path, 1, Len(d.path) - 2)
             parent == Walk(templateNode, parentTagPath)
             role == IF parent.k = "node"
                       THEN guessTextRoleFromClassOrId(parent.node) ELSE <<>>
             byTag == IF parent.k = "node" /\ parent.node.name # <<>>
                        THEN toCamelCase(parent.node.name \o <<"T", "e", "x", "t">>) ELSE <<>>
         IN IF role # <<>> THEN [base |-> role, counter |-> propCounter]
            ELSE IF byTag # <<>> THEN [base |-> byTag, counter |-> propCounter]
            ELSE [base |-> <<"t", "e", "x", "t">> \o NumToStr(propCounter),
                  counter |-> propCounter + 1]
    [] OTHER -> [base |-> <<"p", "r", "o", "p">> \o NumToStr(propCounter),
                 counter |-> propCounter + 1]

\* obj[name] = entry on an object kept as its entries in insertion order
ObjSet(obj, entry) ==
  IF \E i \in 1..Len(obj) : obj[i].name = entry.name
    THEN [i \in 1..Len(obj) |->
            IF obj[i].name = entry.name THEN entry ELSE obj[i]]
    ELSE Append(obj, entry)

PropNames(propsSpec) == { propsSpec[i].name : i \in 1..Len(propsSpec) }

HasProp(propsSpec, name) == name \in PropNames(propsSpec)

PropNamed(propsSpec, name) ==
  propsSpec[CHOOSE i \in 1..Len(propsSpec) : propsSpec[i].name = name]

\* The differingPaths.forEach of lines 238-267
RECURSIVE NameProps(_, _, _, _, _)
NameProps(templateNode, differingPaths, propCounter, existingPropNames, propsSpec) ==
  IF differingPaths = <<>> THEN propsSpec
  ELSE
    LET d == differingPaths[1]
        b == BasePropName(templateNode, d, propCounter)
        finalPropName == generatePropName(b.base, existingPropNames)
    IN NameProps(templateNode, Tail(differingPaths), b.counter,
                 existingPropNames \cup {finalPropName},
                 ObjSet(propsSpec,
                        [name |-> finalPropName, type |-> d.type,
                         path |-> d.path, values |-> d.values]))

analyzeInstancesForProps(templateNode, instances) ==
  LET differingPaths == DifferingPaths(templateNode, instances)
      named == NameProps(templateNode, differingPaths, 0, {}, <<>>)
      templateChildrenSignature == ChildrenSignature(templateNode)
      instancesHaveDifferentChildStructure ==
        \E i \in 1..Len(instances) :
          ChildrenSignature(instances[i]) # templateChildrenSignature
  IN IF instancesHaveDifferentChildStructure
          /\ ~ \E i \in 1..Len(named) : named[i].type = "children"
       THEN ObjSet(named,
                   [name |-> generatePropName(<<"c", "h", "i", "l", "d", "r", "e", "n">>,
                       PropNames(named)),
                    type |-> "children", path |-> <<P_children>>,
                    values |-> <<>>])
       ELSE named

(***************************************************************************)
(* Code generation                                                         *)
(***************************************************************************)


\* componentization.selfClosingTags of the default configuration
SELF_CLOSING_TAGS ==
  { <<"i", "m", "g">>, <<"b", "r">>, <<"h", "r">>, <<"i", "n", "p", "u", "t">>,
    <<"m", "e", "t", "a">>, <<"l", "i", "n", "k">> }

\* The attributes rendered by their name alone when their value is empty
\* (lines 687-698)
BooleanAttributes ==
  { <<"d", "i", "s", "a", "b", "l", "e", "d">>, <<"c", "h", "e", "c", "k", "e", "d">>,
    <<"s", "e", "l", "e", "c", "t", "e", "d">>, <<"r", "e", "q", "u", "i", "r", "e", "d">>,
    <<"a", "u", "t", "o", "p", "l", "a", "y">>, <<"c", "o", "n", "t", "r", "o", "l", "s">>,
    <<"l", "o", "o", "p">>, <<"m", "u", "t", "e", "d">>,
    <<"r", "e", "a", "d", "o", "n", "l", "y">>, <<"o", "p", "e", "n">>,
    <<"h", "i", "d", "d", "e", "n">> }

\* pathConfig.svgs of the default configuration
PathConfigSvgs == <<"s", "v", "g", "s">>

\* JSON.stringify of a string
RECURSIVE JsonEscape(_)
JsonEscape(str) ==
  IF str = <<>> THEN <<>>
  ELSE (CASE str[1] = "\"" -> <<"\\", "\"">>
          [] str[1] = "\\" -> <<"\\", "\\">>
          [] str[1] = "\n" -> <<"\\", "n">>
          [] OTHER -> <<str[1]>>) \o JsonEscape(Tail(str))

JsonString(str) == <<"\"">> \o JsonEscape(str) \o <<"\"">>

\* str.replace(/sub/g, by) for a literal sub of two characters
RECURSIVE ReplacePair(_, _, _)
ReplacePair(str, sub, by) ==
  IF Len(str) < 2 THEN str
  ELSE IF SubSeq(str, 1, 2) = sub
    THEN by \o ReplacePair(SubSeq(str, 3, Len(str)), sub, by)
  ELSE <<str[1]>> \o ReplacePair(Tail(str), sub, by)

\* styleStringToObject(styleString): the object's entries in insertion order
RECURSIVE StyleEntries(_, _)
StyleEntries(declarations, style) ==
  IF declarations = <<>> THEN style
  ELSE
    LET parts == SplitChar(declarations[1], ":")
        property == parts[1]
        value == IF Len(parts) >= 2 THEN parts[2] ELSE <<>>
    IN StyleEntries(Tail(declarations),
         IF property # <<>> /\ value # <<>>
           THEN ObjSet(style, [name |-> kebabToCamelCase(Trim(property)),
                               value |-> Trim(value)])
           ELSE style)

styleStringToObject(styleString) ==
  IF styleString = <<>> THEN <<>>
  ELSE StyleEntries(SplitChar(styleString, ";"), <<>>)

\* JSON.stringify of the object styleStringToObject returns
JsonStyle(style) ==
  <<"{">> \o Join([i \in 1..Len(style) |->
                     JsonString(style[i].name) \o <<":">>
                       \o JsonString(style[i].value)], <<",">>)
    \o <<"}">>

\* `icon-${hash}.svg`, hash being md5(content) in hex: distinct contents
\* have distinct digests
SvgFilename(svgString) == <<"icon-">> \o <<"md5(">> \o svgString \o <<")">> \o <<".svg">>

\* attribs.viewBox = attribs.viewbox; delete attribs.viewbox (lines 470-473,
\* 582-585): the key moves to the end of the object under its new name
NormalizeViewBox(node) ==
  IF node.type = "tag" /\ AttrTruthy(node, <<"v", "i", "e", "w", "b", "o", "x">>)
    THEN LET kept == { i \in 1..Len(node.attribs) :
                         node.attribs[i].key \notin
                             {<<"v", "i", "e", "w", "b", "o", "x">>, <<"v", "i", "e", "w", "B", "o", "x">>} }
             RECURSIVE Keep(_)
             Keep(i) == IF i > Len(node.attribs) THEN <<>>
                        ELSE (IF i \in kept THEN <<node.attribs[i]>> ELSE <<>>)
                               \o Keep(i + 1)
             before == { i \in 1..Len(node.attribs) :
                           node.attribs[i].key = <<"v", "i", "e", "w", "B", "o", "x">> }
             RECURSIVE Layout(_)
             Layout(i) ==
               IF i > Len(node.attribs) THEN <<>>
               ELSE (IF node.attribs[i].key = <<"v", "i", "e", "w", "b", "o", "x">> THEN <<>>
                     ELSE IF node.attribs[i].key = <<"v", "i", "e", "w", "B", "o", "x">>
                       THEN <<Attr(<<"v", "i", "e", "w", "B", "o", "x">>,
                           AttrVal(node, <<"v", "i", "e", "w", "b", "o", "x">>))>>
                     ELSE <<node.attribs[i]>>) \o Layout(i + 1)
         IN [node EXCEPT !.attribs =
               IF before = {}
                 THEN Keep(1) \o <<Attr(<<"v", "i", "e", "w", "B", "o", "x">>,
                     AttrVal(node, <<"v", "i", "e", "w", "b", "o", "x">>))>>
                 ELSE Layout(1)]
    ELSE node

\* The alt text of an icon: its title child's first text, or 'icon'
AltText(node) ==
  LET titles == { i \in 1..Len(node.children) :
                    node.children[i].type = "tag"
                      /\ node.children[i].name = <<"t", "i", "t", "l", "e">> }
      titleNode == node.children[CHOOSE i \in titles : \A j \in titles : i <= j]
      altText == IF titles # {} /\ titleNode.children # <<>>
                      /\ titleNode.children[1].type = "text"
                   THEN Trim(titleNode.children[1].data)
                   ELSE <<"i", "c", "o", "n">>
  IN ReplaceChar(altText, "\"", <<"\\", "\"">>)

\* Node identity: a node is named by the positions (from 1) of the children
\* that lead to it from the body element of its tree.
RECURSIVE NodeAt(_, _)
NodeAt(root, id) ==
  IF id = <<>> THEN root ELSE NodeAt(root.children[id[1]], Tail(id))

\* No node: templateNodeForCurrentDefinition = null
NullId == <<0>>

\* spec.path.every((p, i) => p === pathInSpec[i])
PathEvery(specPath, pathInSpec) ==
  \A i \in 1..Len(specPath) : i <= Len(pathInSpec) /\ specPath[i] = pathInSpec[i]

\* The first prop of the spec (for ... in order) that satisfies Test
FirstProp(hits) ==
  IF hits = {} THEN 0 ELSE CHOOSE i \in hits : \A j \in hits : i <= j

\* A call site that passes no value for any prop
NoPropValue(node, spec) == [defined |-> FALSE, value |-> <<>>]

\* The value a call site passes for one prop (lines 463-508): undefined, or
\* a string
InstancePropValue(node, spec) ==
  CASE spec.type = "svg" ->
         LET svgNode == Walk(node, spec.path)
         IN IF svgNode.k = "node"
              THEN [defined |-> TRUE,
                    value |-> <<"/">> \o PathConfigSvgs \o <<"/">>
                                \o SvgFilename(RenderXml(NormalizeViewBox(svgNode.node)))]
              ELSE [defined |-> TRUE, value |-> <<>>]
    [] spec.type = "attribute" ->
         LET w == Walk(node, spec.path)
         IN IF w.k = "value" THEN [defined |-> TRUE, value |-> w.v]
            ELSE [defined |-> FALSE, value |-> <<>>]
    [] spec.type = "textChild" ->
         LET w == Walk(node, spec.path)
         IN IF w.k = "node" THEN [defined |-> TRUE, value |-> Trim(w.node.data)]
            ELSE [defined |-> TRUE, value |-> <<>>]
    [] OTHER -> [defined |-> FALSE, value |-> <<>>]

\* One entry of propsString (lines 528-545)
PropString(spec, pv) ==
  IF ~pv.defined THEN <<>>
  ELSE LET jsxPropName == kebabToCamelCase(spec.name)
       IN IF jsxPropName = <<"s", "t", "y", "l", "e">>
            THEN <<" ">> \o jsxPropName \o <<"={">>
                   \o JsonStyle(styleStringToObject(pv.value)) \o <<"}">>
            ELSE <<" ">> \o jsxPropName \o <<"={">>
                   \o JsonString(pv.value) \o <<"}">>

\* One attribute of an element that is not rendered as a prop (lines 681-702)
AttribString(key, value) ==
  LET camel == kebabToCamelCase(key)
      jsxPropNameForKey ==
        IF camel = <<"c", "l", "a", "s", "s">> THEN <<"c", "l", "a", "s", "s", "N", "a", "m", "e">>
        ELSE IF camel = <<"f", "o", "r">> THEN <<"h", "t", "m", "l", "F", "o", "r">> ELSE camel
      attributeNameToRenderInJsx ==
        IF StartsWith(key, <<"d", "a", "t", "a", "-">>)
             \/ StartsWith(key, <<"a", "r", "i", "a", "-">>)
          THEN key ELSE jsxPropNameForKey
  IN IF jsxPropNameForKey = <<"s", "t", "y", "l", "e">>
       THEN <<" style={">> \o JsonStyle(styleStringToObject(value)) \o <<"}">>
     ELSE IF value = <<>>
            /\ attributeNameToRenderInJsx \in BooleanAttributes
       THEN <<" ">> \o attributeNameToRenderInJsx
     ELSE <<" ">> \o attributeNameToRenderInJsx \o <<"={">>
            \o JsonString(value) \o <<"}">>

\* One attribute of an element inside a definition body that a prop of the
\* spec stands for (lines 654-679)
AttribAsPropString(key, value, propName) ==
  LET camel == kebabToCamelCase(key)
      jsxPropNameForKey ==
        IF camel = <<"c", "l", "a", "s", "s">> THEN <<"c", "l", "a", "s", "s", "N", "a", "m", "e">>
        ELSE IF camel = <<"f", "o", "r">> THEN <<"h", "t", "m", "l", "F", "o", "r">> ELSE camel
      attributeNameToRenderInJsx ==
        IF StartsWith(key, <<"d", "a", "t", "a", "-">>)
             \/ StartsWith(key, <<"a", "r", "i", "a", "-">>)
          THEN key ELSE jsxPropNameForKey
  IN IF jsxPropNameForKey = <<"s", "t", "y", "l", "e">>
       THEN <<" style={">> \o propName \o <<" || ">>
              \o JsonStyle(styleStringToObject(value)) \o <<"}">>
       ELSE <<" ">> \o attributeNameToRenderInJsx \o <<"={">> \o propName
              \o <<" || ">> \o JsonString(value) \o <<"}">>

\* astNodeToJsx(node, depth, isComponentDefinitionBody, componentPropsSpec,
\*             nodePath, localComponentRegistry, templateNodeForCurrentDefinition)
\* for the node id of the tree under body; depth does not affect the result.
RECURSIVE astNodeToJsx(_, _, _, _, _, _, _)
astNodeToJsx(body, id, isComponentDefinitionBody, componentPropsSpec, nodePath, localComponentRegistry, templateId) ==
  LET node == NodeAt(body, id)
      RenderChildren(isDef, spec, PathOf(_)) ==
        Concat([i \in 1..Len(node.children) |->
                  astNodeToJsx(body, Append(id, i), isDef, spec, PathOf(i),
                               localComponentRegistry, templateId)])
      NoPath(i) == <<>>
      ChildPath(i) == nodePath \o <<P_children, PIndex(i - 1)>>
  IN
  IF id \in DOMAIN localComponentRegistry /\ id # templateId THEN
    LET compInfo == localComponentRegistry[id]
        propsString ==
          Concat([i \in 1..Len(compInfo.propsSpec) |->
                    IF compInfo.propsSpec[i].type = "children" THEN <<>>
                    ELSE PropString(compInfo.propsSpec[i],
                                    InstancePropValue(node, compInfo.propsSpec[i]))])
        childrenJsx ==
          IF HasProp(compInfo.propsSpec, <<"c", "h", "i", "l", "d", "r", "e", "n">>)
            THEN RenderChildren(FALSE, <<>>, NoPath) ELSE <<>>
    IN IF Trim(childrenJsx) # <<>>
         THEN <<"<">> \o compInfo.name \o propsString \o <<">">> \o childrenJsx
                \o <<"</">> \o compInfo.name \o <<">">>
         ELSE <<"<">> \o compInfo.name \o propsString \o <<" />">>
  ELSE
  CASE node.type = "text" ->
         LET IsTextProp(spec) == spec.type = "textChild" /\ spec.path = nodePath
             k == FirstProp({ n \in 1..Len(componentPropsSpec) : IsTextProp(componentPropsSpec[n]) })
         IN IF isComponentDefinitionBody /\ k # 0
              THEN <<"{">> \o componentPropsSpec[k].name \o <<" || ", "'">>
                     \o ReplaceChar(Trim(node.data), "'", <<"\\", "'">>)
                     \o <<"'", "}">>
            ELSE IF Trim(node.data) = <<>>
              THEN (IF Len(node.data) > 0 /\ ~isComponentDefinitionBody
                      THEN node.data ELSE <<>>)
            ELSE ReplaceChar(
                   ReplaceChar(node.data, "{", <<"{", "\"", "{", "\"", "}">>),
                   "}", <<"{", "\"", "}", "\"", "}">>)
    [] node.type = "comment" ->
         <<"{", "/", "*">> \o ReplacePair(node.data, <<"*", "/">>, <<"*", "\\", "/">>)
           \o <<"*", "/", "}">>
    [] node.type \in {"directive", "script", "style"} -> <<>>
    [] node.type = "tag" ->
         LET IsSvgProp(spec) == spec.type = "svg" /\ spec.path = nodePath
             k == FirstProp({ n \in 1..Len(componentPropsSpec) : IsSvgProp(componentPropsSpec[n]) })
             tagName == LowerStr(node.name)
             AttrOut(i) ==
               LET key == node.attribs[i].key
                   pathInSpecToOriginalAttr == nodePath \o <<P_attribs, PName(key)>>
                   IsAttrProp(spec) ==
                     spec.type = "attribute"
                       /\ PathEvery(spec.path, pathInSpecToOriginalAttr)
                   a == FirstProp({ n \in 1..Len(componentPropsSpec) : IsAttrProp(componentPropsSpec[n]) })
               IN IF isComponentDefinitionBody /\ a # 0
                    THEN AttribAsPropString(key, node.attribs[i].value,
                                            componentPropsSpec[a].name)
                    ELSE AttribString(key, node.attribs[i].value)
             attribsString == Concat([i \in 1..Len(node.attribs) |-> AttrOut(i)])
             childrenJsx ==
               IF isComponentDefinitionBody
                    /\ HasProp(componentPropsSpec, <<"c", "h", "i", "l", "d", "r", "e", "n">>)
                    /\ PropNamed(componentPropsSpec, <<"c", "h", "i", "l", "d", "r", "e", "n">>)
                        .type = "children"
                 THEN <<"{children}">>
                 ELSE RenderChildren(isComponentDefinitionBody,
                                     componentPropsSpec, ChildPath)
         IN IF isComponentDefinitionBody /\ k # 0
              THEN <<"<img src={">> \o componentPropsSpec[k].name
                     \o <<"} alt=", "\"">> \o AltText(node) \o <<"\"", " />">>
            ELSE IF tagName = <<"s", "v", "g">>
              THEN <<"<img src=", "\"", "/">> \o PathConfigSvgs \o <<"/">>
                     \o SvgFilename(RenderXml(NormalizeViewBox(node)))
                     \o <<"\"", " alt=", "\"">> \o AltText(node) \o <<"\"", " />">>
            ELSE IF tagName \in SELF_CLOSING_TAGS
              THEN <<"<">> \o tagName \o attribsString \o <<" />">>
            ELSE <<"<">> \o tagName \o attribsString \o <<">">> \o childrenJsx
                   \o <<"</">> \o tagName \o <<">">>
    [] OTHER -> <<>>

\* What one call of astNodeToJsx does besides returning its text, in the
\* order it does it: "reference" when the node is rendered as a call site of
\* its component (lines 453-552), "write" for each fs.writeFile of an icon
\* (lines 481 and 618, file being the name of the file), "inline" when the
\* node is rendered by the switch of lines 554-733.
RECURSIVE RenderTrace(_, _, _, _, _, _, _)
RenderTrace(body, id, isComponentDefinitionBody, componentPropsSpec, nodePath, localComponentRegistry, templateId) ==
  LET node == NodeAt(body, id)
      Step(event, file) == [event |-> event, node |-> id, file |-> file]
      TraceChildren(isDef, spec, PathOf(_)) ==
        Concat([i \in 1..Len(node.children) |->
                  RenderTrace(body, Append(id, i), isDef, spec, PathOf(i),
                              localComponentRegistry, templateId)])
      NoPath(i) == <<>>
      ChildPath(i) == nodePath \o <<P_children, PIndex(i - 1)>>
  IN
  IF id \in DOMAIN localComponentRegistry /\ id # templateId THEN
    LET compInfo == localComponentRegistry[id]
        IconWrite(spec) ==
          LET svgNode == Walk(node, spec.path)
          IN IF spec.type = "svg" /\ svgNode.k = "node"
               THEN <<Step("write",
                           SvgFilename(RenderXml(NormalizeViewBox(svgNode.node))))>>
               ELSE <<>>
    IN <<Step("reference", <<>>)>>
         \o Concat([i \in 1..Len(compInfo.propsSpec) |->
                      IconWrite(compInfo.propsSpec[i])])
         \o (IF HasProp(compInfo.propsSpec, <<"c", "h", "i", "l", "d", "r", "e", "n">>)
               THEN TraceChildren(FALSE, <<>>, NoPath) ELSE <<>>)
  ELSE IF node.type # "tag" THEN <<Step("inline", <<>>)>>
  ELSE
    LET IsSvgProp(spec) == spec.type = "svg" /\ spec.path = nodePath
        k == FirstProp({ n \in 1..Len(componentPropsSpec) :
                           IsSvgProp(componentPropsSpec[n]) })
        tagName == LowerStr(node.name)
    IN IF isComponentDefinitionBody /\ k # 0 THEN <<Step("inline", <<>>)>>
       ELSE IF tagName = <<"s", "v", "g">>
         THEN <<Step("inline", <<>>),
                Step("write", SvgFilename(RenderXml(NormalizeViewBox(node))))>>
       ELSE IF tagName \in SELF_CLOSING_TAGS THEN <<Step("inline", <<>>)>>
       ELSE IF isComponentDefinitionBody
                 /\ HasProp(componentPropsSpec, <<"c", "h", "i", "l", "d", "r", "e", "n">>)
                 /\ PropNamed(componentPropsSpec, <<"c", "h", "i", "l", "d", "r", "e", "n">>)
                      .type = "children"
         THEN <<Step("inline", <<>>)>>
       ELSE <<Step("inline", <<>>)>>
              \o TraceChildren(isComponentDefinitionBody, componentPropsSpec,
                               ChildPath)

\* The icon files a rendering starts to write: each fs.writeFile returns a
\* promise that nothing awaits
IssuedSvgWrites(trace) ==
  LET IsWrite(step) == step.event = "write"
      writes == SelectSeq(trace, IsWrite)
  IN [i \in 1..Len(writes) |-> [file |-> writes[i].file, state |-> "pending"]]

(***************************************************************************)
(* Pattern detection: the first part of identifyComponents (lines 290-370) *)
(***************************************************************************)


\* componentization of the default configuration (README.md)
MIN_CHILDREN_FOR_REUSABLE_BY_REPETITION == 2
MIN_REPETITIONS_FOR_COMPONENT == 2
LAYOUT_CLASSES_OR_IDS == <<<<"n", "a", "v", "b", "a", "r">>, <<"f", "o", "o", "t", "e", "r">>>>

\* Array.prototype.filter on a sequence
RECURSIVE SelectSeq2(_, _)
SelectSeq2(keep, seq) ==
  IF seq = <<>> THEN <<>>
  ELSE (IF seq[1] \in keep THEN <<seq[1]>> ELSE <<>>) \o SelectSeq2(keep, Tail(seq))

\* The nodes under (and with) id, in the order findNodes' traverse visits them
RECURSIVE PreOrder(_, _)
PreOrder(body, id) ==
  <<id>> \o Concat([i \in 1..Len(NodeAt(body, id).children) |->
                      PreOrder(body, Append(id, i))])

findNodes(body, meeting) == SelectSeq2(meeting, PreOrder(body, <<>>))

isNodeAlreadyComponentPart(id, localComponentRegistry) ==
  id \in DOMAIN localComponentRegistry

isNodeEligibleForComponentization(body, id, localComponentRegistry) ==
  /\ NodeAt(body, id).type = "tag"
  /\ ~isNodeAlreadyComponentPart(id, localComponentRegistry)
  /\ NodeAt(body, id).name # <<"s", "v", "g">>

\* The layout pass (lines 292-313)
MatchesLayout(node, identifier) ==
  /\ node.type = "tag"
  /\ \/ HasAttr(node, <<"c", "l", "a", "s", "s">>)
          /\ Contains(SplitChar(AttrVal(node, <<"c", "l", "a", "s", "s">>), " "), identifier)
     \/ HasAttr(node, <<"i", "d">>) /\ AttrVal(node, <<"i", "d">>) = identifier

LayoutCandidates(body, localComponentRegistry) ==
  Concat([k \in 1..Len(LAYOUT_CLASSES_OR_IDS) |->
    LET identifier == LAYOUT_CLASSES_OR_IDS[k]
        ids == PreOrder(body, <<>>)
        meeting == { id \in Range(ids) :
                       MatchesLayout(NodeAt(body, id), identifier) }
        unclaimed == { id \in Range(ids) :
                         ~isNodeAlreadyComponentPart(id, localComponentRegistry) }
        found == SelectSeq2(unclaimed, findNodes(body, meeting))
    IN [i \in 1..Len(found) |->
          [nameAttempt |-> toPascalCase(identifier) \o <<"L", "a", "y", "o", "u", "t">>,
           astNode |-> found[i],
           type |-> "layout",
           propsSpec |-> <<>>,
           instances |-> <<found[i]>>]]])

\* A search for repeated nodes that descends into svg elements too
RECURSIVE findRepetitiveInIcons(_, _, _)
findRepetitiveInIcons(body, id, localComponentRegistry) ==
  LET node == NodeAt(body, id)
  IN (IF isNodeEligibleForComponentization(body, id, localComponentRegistry)
          /\ Len(node.children) >= MIN_CHILDREN_FOR_REUSABLE_BY_REPETITION
        THEN << [sig |-> getStructuralSignature(node), node |-> id] >>
        ELSE <<>>)
     \o Concat([i \in 1..Len(node.children) |->
          findRepetitiveInIcons(body, Append(id, i), localComponentRegistry)])

\* findRepetitive (lines 315-335): the nodes it enters in the map signatures,
\* in order.  An svg child is neither entered nor descended into.
RECURSIVE findRepetitive(_, _, _)
findRepetitive(body, id, localComponentRegistry) ==
  LET node == NodeAt(body, id)
  IN (IF isNodeEligibleForComponentization(body, id, localComponentRegistry)
          /\ Len(node.children) >= MIN_CHILDREN_FOR_REUSABLE_BY_REPETITION
        THEN << [sig |-> getStructuralSignature(node), node |-> id] >>
        ELSE <<>>)
     \o Concat([i \in 1..Len(node.children) |->
          IF node.children[i].type = "tag" /\ node.children[i].name = <<"s", "v", "g">>
            THEN <<>>
            ELSE findRepetitive(body, Append(id, i), localComponentRegistry)])

\* The map signatures: one group per signature, in insertion order
RECURSIVE GroupBySignature(_, _)
GroupBySignature(entries, groups) ==
  IF entries = <<>> THEN groups
  ELSE
    LET e == entries[1]
        hit == { k \in 1..Len(groups) : groups[k].sig = e.sig }
    IN GroupBySignature(Tail(entries),
         IF hit = {} THEN Append(groups, [sig |-> e.sig, nodes |-> <<e.node>>])
         ELSE [k \in 1..Len(groups) |->
                 IF k \in hit
                   THEN [groups[k] EXCEPT !.nodes = Append(@, e.node)]
                   ELSE groups[k]])

\* tentativeName of a repetition group (lines 342-352)
RepetitionName(firstNodeInstance) ==
  LET classes ==
        IF HasAttr(firstNodeInstance, <<"c", "l", "a", "s", "s">>)
          THEN FilterNonEmpty(SplitWs(Trim(AttrVal(firstNodeInstance,
              <<"c", "l", "a", "s", "s">>))))
          ELSE <<>>
      byClassOrId ==
        IF Len(classes) > 0 THEN toPascalCase(classes[1])
        ELSE IF AttrTruthy(firstNodeInstance, <<"i", "d">>)
          THEN toPascalCase(AttrVal(firstNodeInstance, <<"i", "d">>))
        ELSE <<"R", "e", "u", "s", "a", "b", "l", "e">>
      baseName ==
        IF Len(byClassOrId) <= 1 \/ byClassOrId = <<"W">>
          THEN toPascalCase(firstNodeInstance.name) \o <<"E", "l", "e", "m", "e", "n", "t">>
          ELSE byClassOrId
  IN baseName \o <<"I", "t", "e", "m">>

\* The signatures.forEach of lines 337-365
RepetitionCandidates(body, localComponentRegistry) ==
  LET groups == GroupBySignature(findRepetitive(body, <<>>, localComponentRegistry), <<>>)
      eligible ==
        { g \in Range(groups) :
            /\ Len(g.nodes) >= MIN_REPETITIONS_FOR_COMPONENT
            /\ ~isNodeAlreadyComponentPart(g.nodes[1], localComponentRegistry) }
      kept == SelectSeq2(eligible, groups)
  IN [k \in 1..Len(kept) |->
        LET firstNodeInstance == NodeAt(body, kept[k].nodes[1])
        IN [nameAttempt |-> RepetitionName(firstNodeInstance),
            astNode |-> kept[k].nodes[1],
            type |-> "repetition",
            propsSpec |->
              analyzeInstancesForProps(firstNodeInstance,
                [i \in 1..Len(kept[k].nodes) |-> NodeAt(body, kept[k].nodes[i])]),
            instances |-> kept[k].nodes]]

RECURSIVE countNodes(_)
countNodes(n) ==
  LET RECURSIVE Sum(_)
      Sum(i) == IF i = 0 THEN 0 ELSE countNodes(n.children[i]) + Sum(i - 1)
  IN 1 + Sum(Len(n.children))

\* Array.prototype.sort((a, b) => countNodes(a.astNode) - countNodes(b.astNode)):
\* a stable sort
RECURSIVE InsertByKey(_, _, _)
InsertByKey(body, x, s) ==
  IF s = <<>> THEN <<x>>
  ELSE IF countNodes(NodeAt(body, x.astNode))
            < countNodes(NodeAt(body, s[1].astNode)) THEN <<x>> \o s
  ELSE <<s[1]>> \o InsertByKey(body, x, Tail(s))

\* The candidates left in the order they were found
SortKeepingOrder(body, s) == s

RECURSIVE SortByKey(_, _)
SortByKey(body, s) ==
  IF s = <<>> THEN <<>>
  ELSE InsertByKey(body, s[Len(s)], SortByKey(body, SubSeq(s, 1, Len(s) - 1)))

\* componentCandidates after the sort of line 368
ComponentCandidates(body, localComponentRegistry) ==
  SortByKey(body, LayoutCandidates(body, localComponentRegistry)
                    \o RepetitionCandidates(body, localComponentRegistry))

(***************************************************************************)
(* The global registry: fingerprints and names (lines 382-417)             *)
(***************************************************************************)

\* `${jsxBody}::PROPS::${JSON.stringify(Object.keys(propsSpec).sort())}`:
\* the string that is hashed, kept as its two parts
ContentToHash(jsxBody, propsSpec) ==
  [jsxBody |-> jsxBody,
   props |-> SortStrs([i \in 1..Len(propsSpec) |-> propsSpec[i].name])]

\* fingerprint.substring(0, 8)
ShortHashLength == 8

\* An md5 digest in hex is modelled by its first ShortHashLength characters
\* (short) and the content it is the digest of, which stands for the rest:
\* digests of distinct contents differ, their first characters need not.
Fingerprint(short, content) == [short |-> short, content |-> content]

shortHash(fingerprint) == fingerprint.short

\* The number of 8-character digest prefixes of the model
NumPrefixes == 2

Prefixes ==
  LET HexDigits == <<"0", "1", "2", "3", "4", "5", "6", "7", "8", "9",
                     "a", "b", "c", "d", "e", "f">>
  IN { [i \in 1..ShortHashLength |-> HexDigits[k]] : k \in 1..NumPrefixes }

\* path.join(pathConfig.components, `${finalName}.jsx`)
ComponentFilePath(finalName) ==
  <<"c", "o", "m", "p", "o", "n", "e", "n", "t", "s">> \o <<"/">> \o finalName
    \o <<".jsx">>

EmptyMap == <<>>

\* Resolution that never looks the fingerprint up
ResolveWithoutLookup(signatures, nameUsage, fingerprint, nameAttempt) ==
  LET finalName ==
        IF nameAttempt \notin DOMAIN nameUsage THEN nameAttempt
        ELSE nameAttempt \o <<"_">> \o shortHash(fingerprint)
      entry == [name |-> finalName, filePath |-> ComponentFilePath(finalName)]
  IN [finalName |-> finalName,
      componentFilePath |-> entry.filePath,
      isNewGlobalComponent |-> TRUE,
      signatures |->
        [f \in DOMAIN signatures \cup {fingerprint} |->
           IF f = fingerprint THEN entry ELSE signatures[f]],
      nameUsage |->
        IF nameAttempt \notin DOMAIN nameUsage
          THEN nameUsage @@ (nameAttempt :> fingerprint) ELSE nameUsage]

\* Resolution that joins the tentative name and the short hash directly
ResolveWithoutSeparator(signatures, nameUsage, fingerprint, nameAttempt) ==
  IF fingerprint \in DOMAIN signatures
    THEN [finalName |-> signatures[fingerprint].name,
          componentFilePath |-> signatures[fingerprint].filePath,
          isNewGlobalComponent |-> FALSE,
          signatures |-> signatures, nameUsage |-> nameUsage]
    ELSE
      LET finalName ==
            IF nameAttempt \notin DOMAIN nameUsage THEN nameAttempt
            ELSE nameAttempt \o shortHash(fingerprint)
      IN [finalName |-> finalName,
          componentFilePath |-> ComponentFilePath(finalName),
          isNewGlobalComponent |-> TRUE,
          signatures |->
            signatures @@ (fingerprint :>
              [name |-> finalName, filePath |-> ComponentFilePath(finalName)]),
          nameUsage |->
            IF nameAttempt \notin DOMAIN nameUsage
              THEN nameUsage @@ (nameAttempt :> fingerprint) ELSE nameUsage]

\* Resolution that flags a known fingerprint as a new component
ResolveKnownAsNew(signatures, nameUsage, fingerprint, nameAttempt) ==
  IF fingerprint \in DOMAIN signatures
    THEN [finalName |-> signatures[fingerprint].name,
          componentFilePath |-> signatures[fingerprint].filePath,
          isNewGlobalComponent |-> TRUE,
          signatures |-> signatures, nameUsage |-> nameUsage]
    ELSE
      LET finalName ==
            IF nameAttempt \notin DOMAIN nameUsage THEN nameAttempt
            ELSE nameAttempt \o <<"_">> \o shortHash(fingerprint)
      IN [finalName |-> finalName,
          componentFilePath |-> ComponentFilePath(finalName),
          isNewGlobalComponent |-> TRUE,
          signatures |->
            signatures @@ (fingerprint :>
              [name |-> finalName, filePath |-> ComponentFilePath(finalName)]),
          nameUsage |->
            IF nameAttempt \notin DOMAIN nameUsage
              THEN nameUsage @@ (nameAttempt :> fingerprint) ELSE nameUsage]

\* Lines 386-417 and 425-429: the name a candidate with this fingerprint and
\* tentative name resolves to, and the two global maps afterwards
ResolveComponent(signatures, nameUsage, fingerprint, nameAttempt) ==
  IF fingerprint \in DOMAIN signatures
    THEN [finalName |-> signatures[fingerprint].name,
          componentFilePath |-> signatures[fingerprint].filePath,
          isNewGlobalComponent |-> FALSE,
          signatures |-> signatures,
          nameUsage |-> nameUsage]
    ELSE
      LET baseName == nameAttempt
          finalName ==
            IF baseName \notin DOMAIN nameUsage THEN baseName
            ELSE baseName \o <<"_">> \o shortHash(fingerprint)
          componentFilePath == ComponentFilePath(finalName)
      IN [finalName |-> finalName,
          componentFilePath |-> componentFilePath,
          isNewGlobalComponent |-> TRUE,
          signatures |->
            signatures @@ (fingerprint :>
                             [name |-> finalName, filePath |-> componentFilePath]),
          nameUsage |->
            IF baseName \notin DOMAIN nameUsage
              THEN nameUsage @@ (baseName :> fingerprint)
              ELSE nameUsage]

\* The run of [A-Za-z0-9_] characters of jsx from position i
RECURSIVE NameRun(_, _)
NameRun(jsx, i) ==
  IF i <= Len(jsx) /\ (IsAlnum(jsx[i]) \/ jsx[i] = "_")
    THEN <<jsx[i]>> \o NameRun(jsx, i + 1) ELSE <<>>

\* The matches of /<([A-Z][A-Za-z0-9_]*)\b/g in jsx
ComponentNamesFrom(jsx) ==
  {NameRun(jsx, i + 1) :
     i \in {j \in 1..(Len(jsx) - 1) : jsx[j] = "<" /\ IsUpper(jsx[j + 1])}}

UsedComponentNames(jsx) == ComponentNamesFrom(jsx)

(***************************************************************************)
(* The batch: the AST documents index.js writes for the pages of a site    *)
(***************************************************************************)


H3(t) == Tag(<<"h", "3">>, <<>>, <<Text(t)>>)
Para(t) == Tag(<<"p">>, <<>>, <<Text(t)>>)
Span(t) == Tag(<<"s", "p", "a", "n">>, <<>>, <<Text(t)>>)
Link(u, t) == Tag(<<"a">>, <<Attr(<<"h", "r", "e", "f">>, u)>>, <<Text(t)>>)
Icon(shape) == Tag(<<"s", "v", "g">>, <<>>, <<Tag(shape, <<>>, <<>>)>>)
Card(kids) == Tag(<<"d", "i", "v">>,
  <<Attr(<<"c", "l", "a", "s", "s">>, <<"c", "a", "r", "d">>)>>, kids)
Nav(kids) == Tag(<<"d", "i", "v">>,
  <<Attr(<<"c", "l", "a", "s", "s">>, <<"n", "a", "v", "b", "a", "r">>)>>, kids)

\* parseDocument's root with <html><head/><body>...</body></html>
Document(bodyChildren) ==
  [type |-> "root", name |-> <<>>, attribs |-> <<>>, data |-> <<>>,
   children |->
     << Tag(<<"h", "t", "m", "l">>, <<>>,
            << Tag(<<"h", "e", "a", "d">>, <<>>, <<>>),
               Tag(<<"b", "o", "d", "y">>, <<>>, bodyChildren) >>) >>]

\* A document without a body element
DocumentWithoutBody ==
  [type |-> "root", name |-> <<>>, attribs |-> <<>>, data |-> <<>>,
   children |-> << Tag(<<"h", "t", "m", "l">>, <<>>,
         << Tag(<<"h", "e", "a", "d">>, <<>>, <<>>) >>) >>]

\* A tree without an html element
DocumentWithoutHtml ==
  [type |-> "root", name |-> <<>>, attribs |-> <<>>, data |-> <<>>,
   children |-> << Tag(<<"d", "i", "v">>, <<>>, <<>>) >>]

\* Two cards of one shape that differ in their texts
PageCards ==
  Document(<< Card(<<H3(<<"A">>), Para(<<"x">>)>>), Text(<<"\n">>),
              Card(<<H3(<<"B">>), Para(<<"y">>)>>) >>)

\* The same repeated block on another page, after a heading
PageCardsAgain ==
  Document(<< H3(<<"T">>),
              Card(<<H3(<<"A">>), Para(<<"x">>)>>),
              Card(<<H3(<<"B">>), Para(<<"y">>)>>) >>)

\* Cards of another shape under the same class
PageLinkCards ==
  Document(<< Card(<<H3(<<"A">>), Link(<<"/", "a">>, <<"g", "o">>)>>),
              Card(<<H3(<<"A">>), Link(<<"/", "b">>, <<"g", "o">>)>>) >>)

\* Cards whose children differ in nested tag structure
PageMixedCards ==
  Document(<< Card(<<H3(<<"A">>), Para(<<"x">>)>>),
              Card(<<H3(<<"B">>), Span(<<"y">>)>>) >>)

\* Three layout elements of one identifier with different contents
PageNavs ==
  Document(<< Nav(<<Text(<<"A">>)>>), Nav(<<Text(<<"B">>)>>),
              Nav(<<Text(<<"C">>)>>) >>)

\* Two layout elements of one identifier with the same contents
PageTwinNavs ==
  Document(<< Nav(<<H3(<<"A">>), Para(<<"x">>)>>),
              Nav(<<H3(<<"A">>), Para(<<"x">>)>>) >>)

\* A layout element that holds a repeated block
PageNavCards ==
  Document(<< Nav(<< Card(<<H3(<<"A">>), Para(<<"x">>)>>),
                     Card(<<H3(<<"B">>), Para(<<"y">>)>>) >>) >>)

\* Cards that differ only inside their icon
PageIconCards ==
  Document(<< Card(<<Icon(<<"p", "a", "t", "h">>), Para(<<"x">>)>>),
              Card(<<Icon(<<"c", "i", "r", "c", "l", "e">>), Para(<<"x">>)>>) >>)

\* A file `${pageName}_ast.json` that fs.readJson cannot read or parse
Unreadable ==
  [type |-> "unreadable", name |-> <<>>, attribs |-> <<>>, data |-> <<>>,
   children |-> <<>>]

Documents ==
  { PageCards, PageCardsAgain, PageLinkCards, PageMixedCards, PageNavs,
    PageTwinNavs, PageNavCards, PageIconCards, DocumentWithoutBody,
    DocumentWithoutHtml, Unreadable }

\* The number of AST files of a batch
MaxFiles == 2

\* readdir(INPUT_ASTS_DIR): the files `${pageName}_ast.json`, in order
Batches ==
  UNION { [1..n -> Documents] : n \in 1..MaxFiles }

PageNameOf(i) == <<"p">> \o NumToStr(i)

\* ast.children?.find(html)?.children?.find(body): <<>> when there is none,
\* else <<the body element>>
FindChild(node, name) ==
  LET hits == { i \in 1..Len(node.children) :
                  node.children[i].type = "tag" /\ node.children[i].name = name }
  IN IF hits = {} THEN <<>>
     ELSE <<node.children[CHOOSE i \in hits : \A j \in hits : i <= j]>>

\* The first child of the document taken for its body
FirstChildAsBody(ast) ==
  IF ast.children = <<>> THEN <<>> ELSE <<ast.children[1]>>

FindBody(ast) ==
  LET rootHtmlNode == FindChild(ast, <<"h", "t", "m", "l">>)
  IN IF rootHtmlNode = <<>> THEN <<>> ELSE FindChild(rootHtmlNode[1], <<"b", "o", "d", "y">>)

(***************************************************************************)
(* The state of a run of converter.js                                      *)
(***************************************************************************)

VARIABLES
  astFiles,          \* the documents of INPUT_ASTS_DIR, in readdir order
  fileIndex,         \* the position of main's loop over astFiles
  pc,                \* where the run is: "main", "identify", "done", or
                     \* "rejected" when main's promise was rejected
  bodyNode,          \* <<the body element>> of the tree being processed
  localComponentRegistry,
  componentCandidates,
  candidateIndex,    \* the position of the loop over componentCandidates
  finalComponentDefsForThisPage,
  globalGeneratedComponentSignatures,
  globalNameUsage,
  md5,               \* the 8-character digest prefix of each content hashed
  lastResolution,    \* fingerprint, finalName, isNewGlobalComponent of the
                     \* last pass of the candidates' loop
  componentFiles,    \* the files of COMPONENTS_OUTPUT_DIR, by component name
  pageFiles,         \* the files of PAGES_OUTPUT_DIR, by page name
  svgWrites,         \* the fs.writeFile calls on icon files, in the order
                     \* they were started, each pending, written or failed
  inputs,            \* the arguments of a function applied on its own
  outputs            \* and what it returned

vars ==
  << astFiles, fileIndex, pc, bodyNode, localComponentRegistry,
     componentCandidates, candidateIndex, finalComponentDefsForThisPage,
     globalGeneratedComponentSignatures, globalNameUsage, md5, lastResolution,
     componentFiles, pageFiles, svgWrites, inputs, outputs >>

NoContent == [jsxBody |-> <<>>, props |-> <<>>]

NoResolution ==
  [fingerprint |-> Fingerprint(<<>>, NoContent), nameAttempt |-> <<>>,
   finalName |-> <<>>, isNewGlobalComponent |-> FALSE, instances |-> <<>>]

\* The state main starts in, the function harness idle
RunInit ==
  /\ fileIndex = 1
  /\ pc = "main"
  /\ bodyNode = <<>>
  /\ localComponentRegistry = EmptyMap
  /\ componentCandidates = <<>>
  /\ candidateIndex = 1
  /\ finalComponentDefsForThisPage = <<>>
  /\ globalGeneratedComponentSignatures = EmptyMap
  /\ globalNameUsage = EmptyMap
  /\ md5 = EmptyMap
  /\ lastResolution = NoResolution
  /\ componentFiles = EmptyMap
  /\ pageFiles = EmptyMap
  /\ svgWrites = <<>>

Init ==
  /\ astFiles \in Batches
  /\ RunInit
  /\ inputs = <<>>
  /\ outputs = <<>>

runVars ==
  << fileIndex, pc, bodyNode, localComponentRegistry, componentCandidates,
     candidateIndex, finalComponentDefsForThisPage,
     globalGeneratedComponentSignatures, globalNameUsage, md5, lastResolution,
     componentFiles, pageFiles, svgWrites >>

\* generateComponentFingerprint(jsxBody, propsSpec), digestPrefix giving the
\* first characters of the md5 digest of each content
generateComponentFingerprint(digestPrefix, jsxBody, propsSpec) ==
  LET contentToHash == ContentToHash(jsxBody, propsSpec)
  IN Fingerprint(digestPrefix[contentToHash], contentToHash)

\* processSingleAst up to the candidates' loop (lines 741-763, 288-370)
ReadAst ==
  /\ pc = "main"
  /\ fileIndex <= Len(astFiles)
  /\ astFiles[fileIndex] # Unreadable
  /\ FindBody(astFiles[fileIndex]) # <<>>
  /\ bodyNode' = FindBody(astFiles[fileIndex])
  /\ localComponentRegistry' = EmptyMap
  /\ componentCandidates' = ComponentCandidates(bodyNode'[1], EmptyMap)
  /\ candidateIndex' = 1
  /\ finalComponentDefsForThisPage' = <<>>
  /\ pc' = "identify"
  /\ UNCHANGED << astFiles, fileIndex, globalGeneratedComponentSignatures,
                  globalNameUsage, md5, lastResolution, componentFiles,
                  pageFiles, svgWrites, inputs, outputs >>

\* processSingleAst on a file fs.readJson rejects (line 749): nothing catches
\* the rejection before main().catch(console.error) of line 878, so the loop
\* of main ends there
ReadFails ==
  /\ pc = "main"
  /\ fileIndex <= Len(astFiles)
  /\ astFiles[fileIndex] = Unreadable
  /\ pc' = "rejected"
  /\ UNCHANGED << astFiles, fileIndex, bodyNode, localComponentRegistry,
                  componentCandidates, candidateIndex,
                  finalComponentDefsForThisPage,
                  globalGeneratedComponentSignatures, globalNameUsage, md5,
                  lastResolution, componentFiles, pageFiles, svgWrites,
                  inputs, outputs >>

\* processSingleAst on a tree without a body (lines 756-759)
SkipAst ==
  /\ pc = "main"
  /\ fileIndex <= Len(astFiles)
  /\ astFiles[fileIndex] # Unreadable
  /\ FindBody(astFiles[fileIndex]) = <<>>
  /\ fileIndex' = fileIndex + 1
  /\ UNCHANGED << astFiles, pc, bodyNode, localComponentRegistry,
                  componentCandidates, candidateIndex,
                  finalComponentDefsForThisPage,
                  globalGeneratedComponentSignatures, globalNameUsage, md5,
                  lastResolution, componentFiles, pageFiles, svgWrites,
                  inputs, outputs >>

\* localComponentRegistry.set(instanceNode, info) for every instance
RegisterInstances(registry, instances, info) ==
  [id \in DOMAIN registry \cup Range(instances) |->
     IF id \in Range(instances) THEN info ELSE registry[id]]

\* One pass of the candidates' loop (lines 372-437)
ProcessCandidate ==
  /\ pc = "identify"
  /\ candidateIndex <= Len(componentCandidates)
  /\ LET candidate == componentCandidates[candidateIndex]
         componentBodyJsx ==
           astNodeToJsx(bodyNode[1], candidate.astNode, TRUE,
                        candidate.propsSpec, <<>>, localComponentRegistry,
                        candidate.astNode)
         contentToHash == ContentToHash(componentBodyJsx, candidate.propsSpec)
     IN \E short \in Prefixes :
          /\ contentToHash \in DOMAIN md5 => short = md5[contentToHash]
          /\ md5' = IF contentToHash \in DOMAIN md5 THEN md5
                    ELSE md5 @@ (contentToHash :> short)
          /\ LET fingerprint ==
                   generateComponentFingerprint(md5', componentBodyJsx,
                                                candidate.propsSpec)
                 r == ResolveComponent(globalGeneratedComponentSignatures,
                                       globalNameUsage, fingerprint,
                                       candidate.nameAttempt)
             IN /\ globalGeneratedComponentSignatures' = r.signatures
                /\ globalNameUsage' = r.nameUsage
                /\ localComponentRegistry' =
                     RegisterInstances(localComponentRegistry,
                       candidate.instances,
                       [name |-> r.finalName, astNode |-> candidate.astNode,
                        propsSpec |-> candidate.propsSpec])
                /\ finalComponentDefsForThisPage' =
                     IF r.isNewGlobalComponent
                       THEN Append(finalComponentDefsForThisPage,
                                   [candidate |-> candidate,
                                    name |-> r.finalName,
                                    jsxBody |-> componentBodyJsx,
                                    filePath |-> r.componentFilePath])
                       ELSE finalComponentDefsForThisPage
                /\ lastResolution' =
                     [fingerprint |-> fingerprint,
                      nameAttempt |-> candidate.nameAttempt,
                      finalName |-> r.finalName,
                      isNewGlobalComponent |-> r.isNewGlobalComponent,
                      instances |-> candidate.instances]
  /\ svgWrites' =
       svgWrites \o IssuedSvgWrites(
         RenderTrace(bodyNode[1], componentCandidates[candidateIndex].astNode,
                     TRUE, componentCandidates[candidateIndex].propsSpec, <<>>,
                     localComponentRegistry,
                     componentCandidates[candidateIndex].astNode))
  /\ candidateIndex' = candidateIndex + 1
  /\ UNCHANGED << astFiles, fileIndex, pc, bodyNode, componentCandidates,
                  componentFiles, pageFiles, inputs, outputs >>

\* The content of a component file (lines 764-799): the destructured props,
\* the imports and the body
ComponentFileContent(compDef) ==
  LET propsSpec == compDef.candidate.propsSpec
      passthrough == { spec \in Range(propsSpec) : spec.type = "children" }
      named == SelectSeq2(Range(propsSpec) \ passthrough, propsSpec)
      propsList == [i \in 1..Len(named) |-> named[i].name]
  IN [name |-> compDef.name,
      props |-> IF passthrough # {}
                  THEN Append(propsList, <<"c", "h", "i", "l", "d", "r", "e", "n">>) ELSE propsList,
      imports |-> UsedComponentNames(compDef.jsxBody) \ {compDef.name},
      jsxBody |-> compDef.jsxBody]

\* fs.writeFile of every component file of the page, in order
RECURSIVE WriteComponentFiles(_, _)
WriteComponentFiles(files, compDefs) ==
  IF compDefs = <<>> THEN files
  ELSE WriteComponentFiles(
         [n \in DOMAIN files \cup {compDefs[1].name} |->
            IF n = compDefs[1].name THEN ComponentFileContent(compDefs[1])
            ELSE files[n]],
         Tail(compDefs))

\* (bodyNode.children || []).map(astNodeToJsx ...).join('') of line 811
PageJsxContent(body, registry) ==
  Concat([i \in 1..Len(body.children) |->
            astNodeToJsx(body, <<i>>, FALSE, <<>>, <<>>, registry, NullId)])

\* What the rendering of line 811 does besides returning pageJsxContent
PageTrace(body, registry) ==
  Concat([i \in 1..Len(body.children) |->
            RenderTrace(body, <<i>>, FALSE, <<>>, <<>>, registry, NullId)])

\* The rest of processSingleAst (lines 764-850): the component files and the
\* page file are written
WritePage ==
  /\ pc = "identify"
  /\ candidateIndex > Len(componentCandidates)
  /\ componentFiles' =
       WriteComponentFiles(componentFiles, finalComponentDefsForThisPage)
  /\ LET pageJsxContent == PageJsxContent(bodyNode[1], localComponentRegistry)
         pageComponentName == toPascalCase(PageNameOf(fileIndex))
     IN pageFiles' =
          [n \in DOMAIN pageFiles \cup {pageComponentName} |->
             IF n = pageComponentName
               THEN [imports |-> UsedComponentNames(pageJsxContent),
                     jsx |-> pageJsxContent]
               ELSE pageFiles[n]]
  /\ svgWrites' =
       svgWrites \o IssuedSvgWrites(PageTrace(bodyNode[1], localComponentRegistry))
  /\ pc' = "main"
  /\ fileIndex' = fileIndex + 1
  /\ UNCHANGED << astFiles, bodyNode, localComponentRegistry,
                  componentCandidates, candidateIndex,
                  finalComponentDefsForThisPage,
                  globalGeneratedComponentSignatures, globalNameUsage, md5,
                  lastResolution, inputs, outputs >>

\* The rest of processSingleAst when a file cannot be written: formatAndWriteFile
\* (lines 45-58) rejects when its second fs.writeFile rejects too, nothing
\* catches that before line 878, and the loop of main ends there.  written
\* component files precede the failure; the page is rendered, and its icons
\* are started, only when the failing file is the page's.
WriteFails ==
  /\ pc = "identify"
  /\ candidateIndex > Len(componentCandidates)
  /\ \E written \in 0..Len(finalComponentDefsForThisPage) :
       /\ componentFiles' =
            WriteComponentFiles(componentFiles,
                                SubSeq(finalComponentDefsForThisPage, 1, written))
       /\ svgWrites' =
            IF written = Len(finalComponentDefsForThisPage)
              THEN svgWrites
                     \o IssuedSvgWrites(PageTrace(bodyNode[1], localComponentRegistry))
              ELSE svgWrites
  /\ pc' = "rejected"
  /\ UNCHANGED << astFiles, fileIndex, bodyNode, localComponentRegistry,
                  componentCandidates, candidateIndex,
                  finalComponentDefsForThisPage,
                  globalGeneratedComponentSignatures, globalNameUsage, md5,
                  lastResolution, pageFiles, inputs, outputs >>

\* One fs.writeFile of an icon settles: it resolves, or it rejects and the
\* catch of lines 481-486 or 618-623 logs the error
SettleSvgWrite ==
  /\ \E i \in 1..Len(svgWrites) : \E outcome \in {"written", "failed"} :
       /\ svgWrites[i].state = "pending"
       /\ svgWrites' = [svgWrites EXCEPT ![i].state = outcome]
  /\ UNCHANGED << astFiles, fileIndex, pc, bodyNode, localComponentRegistry,
                  componentCandidates, candidateIndex,
                  finalComponentDefsForThisPage,
                  globalGeneratedComponentSignatures, globalNameUsage, md5,
                  lastResolution, componentFiles, pageFiles, inputs, outputs >>

\* main after its loop (lines 872-875)
Complete ==
  /\ pc = "main"
  /\ fileIndex > Len(astFiles)
  /\ pc' = "done"
  /\ UNCHANGED << astFiles, fileIndex, bodyNode, localComponentRegistry,
                  componentCandidates, candidateIndex,
                  finalComponentDefsForThisPage,
                  globalGeneratedComponentSignatures, globalNameUsage, md5,
                  lastResolution, componentFiles, pageFiles, svgWrites,
                  inputs, outputs >>

Next ==
  \/ ReadAst
  \/ ReadFails
  \/ SkipAst
  \/ ProcessCandidate
  \/ WritePage
  \/ WriteFails
  \/ SettleSvgWrite
  \/ Complete

Spec == Init /\ [][Next]_vars

(***************************************************************************)
(* The global registry                                                     *)
(***************************************************************************)

\* A step that is one pass of the candidates' loop
ResolutionStep == pc = "identify" /\ candidateIndex' = candidateIndex + 1

\* C1: in every reachable state no two fingerprints of the global registry
\* have the same final name.
C1_FinalNamesInjective ==
  \A f, g \in DOMAIN globalGeneratedComponentSignatures :
    f # g => globalGeneratedComponentSignatures[f].name
               # globalGeneratedComponentSignatures[g].name

\* C3: a pass that resolves a fingerprint the registry already knows returns
\* the registered name, is flagged as not new, and changes neither global map.
C3_ResolutionIdempotent ==
  [][ (ResolutionStep
        /\ lastResolution'.fingerprint
             \in DOMAIN globalGeneratedComponentSignatures)
      => /\ lastResolution'.finalName
              = globalGeneratedComponentSignatures[lastResolution'.fingerprint].name
         /\ ~ lastResolution'.isNewGlobalComponent
         /\ globalGeneratedComponentSignatures'
              = globalGeneratedComponentSignatures
         /\ globalNameUsage' = globalNameUsage ]_vars

\* A known fingerprint was resolved again, under another tentative name
C3_ReusedUnderAnotherName ==
  /\ lastResolution.finalName # <<>>
  /\ ~ lastResolution.isNewGlobalComponent
  /\ lastResolution.nameAttempt # lastResolution.finalName
  /\ lastResolution.fingerprint \in DOMAIN globalGeneratedComponentSignatures

\* C4: a pass that resolves an unknown fingerprint returns the tentative name
\* and records it as claimed by the fingerprint when the name was unclaimed;
\* when the name was claimed by another fingerprint it returns the tentative
\* name, "_" and the first 8 characters of the fingerprint, which is not the
\* name of the component that holds the tentative name.
C4_UnknownFingerprintNaming ==
  [][ (ResolutionStep
        /\ lastResolution'.fingerprint
             \notin DOMAIN globalGeneratedComponentSignatures)
      => LET fingerprint == lastResolution'.fingerprint
             tentativeName == lastResolution'.nameAttempt
             finalName == lastResolution'.finalName
         IN IF tentativeName \notin DOMAIN globalNameUsage
              THEN /\ finalName = tentativeName
                   /\ tentativeName \in DOMAIN globalNameUsage'
                   /\ globalNameUsage'[tentativeName] = fingerprint
              ELSE /\ globalNameUsage[tentativeName] # fingerprint
                   /\ Len(fingerprint.short) = ShortHashLength
                   /\ finalName = tentativeName \o <<"_">> \o fingerprint.short
                   /\ finalName #
                        globalGeneratedComponentSignatures[
                          globalNameUsage[tentativeName]].name
                   /\ globalNameUsage' = globalNameUsage ]_vars

\* A new component was named by its tentative name and its short hash
C4_Disambiguated ==
  /\ lastResolution.isNewGlobalComponent
  /\ lastResolution.finalName
       = lastResolution.nameAttempt \o <<"_">>
           \o shortHash(lastResolution.fingerprint)
  /\ lastResolution.nameAttempt \in DOMAIN globalNameUsage
  /\ globalNameUsage[lastResolution.nameAttempt] # lastResolution.fingerprint

\* C5: a pass emits a definition exactly when its fingerprint is not yet in
\* the global registry; for a known fingerprint no definition is emitted and
\* every instance of the candidate is registered in the tree's registry under
\* the registered name; and the page written for a tree references the
\* component of every registered child of its body.
C5_OneDefinitionPerFingerprint ==
  [][ /\ ResolutionStep
        => LET fingerprint == lastResolution'.fingerprint
           IN IF fingerprint \in DOMAIN globalGeneratedComponentSignatures
                THEN /\ finalComponentDefsForThisPage'
                          = finalComponentDefsForThisPage
                     /\ globalGeneratedComponentSignatures'
                          = globalGeneratedComponentSignatures
                     /\ \A id \in Range(lastResolution'.instances) :
                          /\ id \in DOMAIN localComponentRegistry'
                          /\ localComponentRegistry'[id].name
                               = globalGeneratedComponentSignatures[fingerprint].name
                ELSE /\ Len(finalComponentDefsForThisPage')
                          = Len(finalComponentDefsForThisPage) + 1
                     /\ finalComponentDefsForThisPage'[
                          Len(finalComponentDefsForThisPage')].name
                          = globalGeneratedComponentSignatures'[fingerprint].name
                     /\ DOMAIN globalGeneratedComponentSignatures'
                          = DOMAIN globalGeneratedComponentSignatures
                              \cup {fingerprint}
      /\ (pc = "identify" /\ pc' = "main")
        => \A i \in 1..Len(bodyNode[1].children) :
             <<i>> \in DOMAIN localComponentRegistry
               => localComponentRegistry[<<i>>].name
                    \in pageFiles'[toPascalCase(PageNameOf(fileIndex))].imports
    ]_vars

\* Two trees with the same repeated block: one definition, referenced by the
\* pages of both
C5_SharedAcrossTrees ==
  /\ pc = "done"
  /\ astFiles = <<PageCards, PageCardsAgain>>
  /\ DOMAIN componentFiles = {Capitalize(<<"c", "a", "r", "d">>) \o <<"I", "t", "e", "m">>}
  /\ DOMAIN globalGeneratedComponentSignatures
       = {lastResolution.fingerprint}
  /\ ~ lastResolution.isNewGlobalComponent
  /\ \A n \in DOMAIN pageFiles :
       pageFiles[n].imports = {Capitalize(<<"c", "a", "r", "d">>) \o <<"I", "t", "e", "m">>}
  /\ Cardinality(DOMAIN pageFiles) = 2

\* The tag, attribute names and class tokens of two elements agree
SameShell(a, b) ==
  /\ a.type = "tag" /\ b.type = "tag"
  /\ a.name = b.name
  /\ Range(AttrKeys(a)) = Range(AttrKeys(b))
  /\ HasAttr(a, <<"c", "l", "a", "s", "s">>)
       => Range(SplitWs(AttrVal(a, <<"c", "l", "a", "s", "s">>)))
            = Range(SplitWs(AttrVal(b, <<"c", "l", "a", "s", "s">>)))

\* C9: once the candidates of a tree are resolved, two children of the body
\* that repeat one element with children of different nested tag structure
\* are instances of a component whose PropSpec has a children-passthrough
\* prop.
C9_MixedChildrenPassThrough ==
  (pc = "identify" /\ candidateIndex > Len(componentCandidates))
    => \A i, j \in 1..Len(bodyNode[1].children) :
         LET a == bodyNode[1].children[i]
             b == bodyNode[1].children[j]
         IN (/\ i < j
             /\ a.type = "tag" /\ b.type = "tag"
             /\ SameShell(a, b)
             /\ Len(a.children) >= MIN_CHILDREN_FOR_REUSABLE_BY_REPETITION
             /\ Len(b.children) >= MIN_CHILDREN_FOR_REUSABLE_BY_REPETITION
             /\ ChildrenSignature(a) # ChildrenSignature(b))
            => /\ <<i>> \in DOMAIN localComponentRegistry
               /\ <<j>> \in DOMAIN localComponentRegistry
               /\ \E k \in 1..Len(localComponentRegistry[<<i>>].propsSpec) :
                    localComponentRegistry[<<i>>].propsSpec[k].type = "children"

(***************************************************************************)
(* Two runs over the same trees                                            *)
(***************************************************************************)

\* The candidates of a tree as the candidates' loop sees them: the tentative
\* name and the content that is hashed (lines 372-385)
TreeCandidates(ast) ==
  LET body == FindBody(ast)[1]
      Hashed(candidates) ==
        [i \in 1..Len(candidates) |->
           [nameAttempt |-> candidates[i].nameAttempt,
            content |->
              ContentToHash(
                astNodeToJsx(body, candidates[i].astNode, TRUE,
                             candidates[i].propsSpec, <<>>, EmptyMap,
                             candidates[i].astNode),
                candidates[i].propsSpec)]]
  IN CHOOSE hashed \in { Hashed(candidates) :
                           candidates \in {ComponentCandidates(body, EmptyMap)} } :
       TRUE

RunDocuments == { PageCards, PageLinkCards, PageTwinNavs, PageNavCards }

RunBatches == { <<a, b>> : a, b \in RunDocuments }

\* The contents hashed for the trees of a batch
BatchContents(trees) ==
  UNION { { trees[t][i].content : i \in 1..Len(trees[t]) } :
          t \in 1..Len(trees) }

\* The candidates of the trees with the fingerprints a digest gives them
Fingerprinted(trees, digest) ==
  [t \in 1..Len(trees) |->
     [i \in 1..Len(trees[t]) |->
        [nameAttempt |-> trees[t][i].nameAttempt,
         fingerprint |->
           Fingerprint(digest[trees[t][i].content], trees[t][i].content)]]]

NoRun == [signatures |-> EmptyMap, nameUsage |-> EmptyMap, done |-> <<>>]

InitRuns ==
  /\ astFiles \in RunBatches
  /\ RunInit
  /\ inputs = <<>>
  /\ outputs = <<NoRun, NoRun>>

\* The candidates of the trees are fingerprinted: the digest of a content is
\* the same in both runs
HashBatch ==
  /\ inputs = <<>>
  /\ \E trees \in {[t \in 1..Len(astFiles) |-> TreeCandidates(astFiles[t])]} :
       \E digest \in [BatchContents(trees) -> Prefixes] :
         /\ md5' = digest
         /\ inputs' = Fingerprinted(trees, digest)
  /\ UNCHANGED << astFiles, outputs, fileIndex, pc, bodyNode,
                  localComponentRegistry, componentCandidates, candidateIndex,
                  finalComponentDefsForThisPage,
                  globalGeneratedComponentSignatures, globalNameUsage,
                  lastResolution, componentFiles, pageFiles, svgWrites >>

\* The candidates' loop of one tree on the global maps of a run
RECURSIVE ResolveAll(_, _)
ResolveAll(run, candidates) ==
  IF candidates = <<>> THEN run
  ELSE
    LET r == ResolveComponent(run.signatures, run.nameUsage,
                              candidates[1].fingerprint,
                              candidates[1].nameAttempt)
    IN ResolveAll([run EXCEPT !.signatures = r.signatures,
                              !.nameUsage = r.nameUsage],
                  Tail(candidates))

\* One of the two runs processes a tree it has not processed yet
ProcessTreeInRun ==
  \E r \in 1..2 :
    \E t \in 1..Len(inputs) :
      /\ ~ Contains(outputs[r].done, t)
      /\ outputs' =
           [outputs EXCEPT
              ![r] = [ResolveAll(@, inputs[t]) EXCEPT !.done = Append(@, t)]]
      /\ UNCHANGED << astFiles, inputs >>
      /\ UNCHANGED runVars

NextRuns == HashBatch \/ ProcessTreeInRun

SpecRuns == InitRuns /\ [][NextRuns]_vars

\* C2: a fingerprint resolved in two runs over the same trees, in whatever
\* order and however many of them each run has processed, has the same final
\* name in both.
C2_NameIsFunctionOfContent ==
  \A f \in DOMAIN outputs[1].signatures \cap DOMAIN outputs[2].signatures :
    outputs[1].signatures[f].name = outputs[2].signatures[f].name

(***************************************************************************)
(* The structural signature on its own                                     *)
(***************************************************************************)

SigAttribs ==
  { <<>>,
    <<Attr(<<"c", "l", "a", "s", "s">>, <<"a">>)>>,
    <<Attr(<<"c", "l", "a", "s", "s">>, <<"a", " ", "a">>)>>,
    <<Attr(<<"c", "l", "a", "s", "s">>, <<"a", " ", "b">>)>>,
    <<Attr(<<"c", "l", "a", "s", "s">>, <<"b", " ", "a">>)>>,
    <<Attr(<<"c", "l", "a", "s", "s">>, <<"a", "_", "b">>)>>,
    <<Attr(<<"h", "r", "e", "f">>, <<"/", "a">>)>>,
    <<Attr(<<"h", "r", "e", "f">>, <<"/", "b">>)>>,
    <<Attr(<<"h", "r", "e", "f">>, <<"/", "a">>), Attr(<<"c", "l", "a", "s", "s">>, <<"a">>)>>,
    <<Attr(<<"c", "l", "a", "s", "s">>, <<"a">>), Attr(<<"h", "r", "e", "f">>, <<"/", "b">>)>> }

SigChildren ==
  { <<>>,
    <<Text(<<"A">>)>>,
    <<Text(<<"B">>)>>,
    <<Icon(<<"p", "a", "t", "h">>)>>,
    <<Icon(<<"c", "i", "r", "c", "l", "e">>)>>,
    <<Tag(<<"s", "v", "g">>, <<>>,
     <<Tag(<<"p", "a", "t", "h">>, <<Attr(<<"b">>, <<"a">>)>>, <<>>)>>)>>,
    <<Para(<<"A">>), Text(<<"A">>)>> }

SignatureTrees ==
  { Tag(<<"d", "i", "v">>, a, k) : a \in SigAttribs, k \in SigChildren }
    \cup { Tag(<<"p">>, <<>>, <<>>), Text(<<"A">>), Comment(<<"A">>) }

InitSig ==
  /\ astFiles = <<>>
  /\ RunInit
  /\ inputs \in SignatureTrees \X SignatureTrees
  /\ outputs = <<>>

\* getStructuralSignature applied to both trees
ApplySignature ==
  /\ outputs = <<>>
  /\ outputs' = << getStructuralSignature(inputs[1]),
                   getStructuralSignature(inputs[2]) >>
  /\ UNCHANGED << astFiles, inputs >>
  /\ UNCHANGED runVars

NextSig == ApplySignature

SpecSig == InitSig /\ [][NextSig]_vars

\* The class tokens of a node: its class value tokenized on whitespace
ClassTokens(node) ==
  IF HasAttr(node, <<"c", "l", "a", "s", "s">>)
    THEN Range(FilterNonEmpty(SplitWs(AttrVal(node, <<"c", "l", "a", "s", "s">>))))
    ELSE {}

\* The same kind and tag name, the same attribute names, the same class
\* tokens, and children whose signatures are equal one by one
SignatureEquivalent(a, b) ==
  /\ a.type = b.type
  /\ a.type = "tag"
       => /\ a.name = b.name
          /\ Range(AttrKeys(a)) = Range(AttrKeys(b))
          /\ ClassTokens(a) = ClassTokens(b)
          /\ Len(a.children) = Len(b.children)
          /\ \A i \in 1..Len(a.children) :
               getStructuralSignature(a.children[i])
                 = getStructuralSignature(b.children[i])

\* C6: the signatures of two subtrees are equal if and only if the subtrees
\* have the same kind and tag name, the same set of attribute names, the same
\* set of class tokens and children of pairwise equal signatures.
C6_SignatureIffEquivalent ==
  outputs # <<>>
    => ((outputs[1] = outputs[2])
          <=> SignatureEquivalent(inputs[1], inputs[2]))

\* Two trees are the same except for what lies inside their svg elements
RECURSIVE SameOutsideIcons(_, _)
SameOutsideIcons(a, b) ==
  /\ a.type = b.type
  /\ a.name = b.name
  /\ a.data = b.data
  /\ a.attribs = b.attribs
  /\ (a.type = "tag" /\ a.name = <<"s", "v", "g">>)
       \/ /\ Len(a.children) = Len(b.children)
          /\ \A i \in 1..Len(a.children) :
               SameOutsideIcons(a.children[i], b.children[i])

\* C7: two elements that are the same except for what lies inside an svg
\* subtree have equal signatures.
C7_SignatureIgnoresIconContent ==
  (outputs # <<>> /\ SameOutsideIcons(inputs[1], inputs[2]))
    => outputs[1] = outputs[2]

(***************************************************************************)
(* Prop inference on its own                                               *)
(***************************************************************************)


\* An element with the attributes x and x1 whose child has the attribute x
Nested(v1, v2, v3, t) ==
  Tag(<<"d", "i", "v">>, <<Attr(<<"x">>, v1), Attr(<<"x", "1">>, v2)>>,
      <<Tag(<<"p">>, <<Attr(<<"x">>, v3)>>, <<>>), Text(t)>>)

PropTrees ==
  { Card(<<H3(<<"A">>), Para(<<"x">>)>>),
    Card(<<H3(<<"B">>), Para(<<"y">>)>>),
    Card(<<H3(<<" ">>), Para(<<"x">>)>>),
    Card(<<H3(<<"A">>), Span(<<"y">>)>>),
    Card(<<Icon(<<"p", "a", "t", "h">>), Para(<<"x">>)>>),
    Card(<<Icon(<<"c", "i", "r", "c", "l", "e">>), Para(<<"x">>)>>),
    Nested(<<"1">>, <<"2">>, <<"3">>, <<"A">>),
    Nested(<<"4">>, <<"5">>, <<"6">>, <<"B">>) }

\* The instances of a candidate, the template first
InstanceLists == [1..2 -> PropTrees] \cup [1..3 -> PropTrees]

InitProps ==
  /\ astFiles = <<>>
  /\ RunInit
  /\ inputs \in InstanceLists
  /\ outputs = <<>>

\* analyzeInstancesForProps applied to the first instance and the list
ApplyInference ==
  /\ outputs = <<>>
  /\ outputs' = << analyzeInstancesForProps(inputs[1], inputs) >>
  /\ UNCHANGED << astFiles, inputs >>
  /\ UNCHANGED runVars

NextProps == ApplyInference

SpecProps == InitProps /\ [][NextProps]_vars

\* The paths of the values of a node
ValuePaths(node) ==
  { collectPaths(node, <<>>)[i].path :
      i \in 1..Len(collectPaths(node, <<>>)) }

ValueAt(node, path) == EntryAt(collectPaths(node, <<>>), path).value

\* The paths at which an instance's value differs from the template's, the
\* template has a value and an instance has none, or an instance has a value
\* and the template has none
PathsThatDiffer(templateNode, instances) ==
  { path \in UNION { ValuePaths(instances[i]) : i \in 1..Len(instances) } :
      \E i \in 1..Len(instances) :
        \/ /\ path \in ValuePaths(templateNode)
           /\ path \in ValuePaths(instances[i])
           /\ ValueAt(templateNode, path) # ValueAt(instances[i], path)
        \/ /\ path \in ValuePaths(templateNode)
           /\ path \notin ValuePaths(instances[i])
        \/ /\ path \notin ValuePaths(templateNode)
           /\ path \in ValuePaths(instances[i]) }

\* The instances are of one structural signature, as those of a repetition
\* candidate are
OneSignature(instances) ==
  \A i \in 1..Len(instances) :
    getStructuralSignature(instances[i]) = getStructuralSignature(instances[1])

\* C8: for instances of one signature, the props of the PropSpec other than
\* a children prop are one for each path at which a value differs, is missing
\* on one side or is new, and none for any other path.
C8_EveryDifferenceIsOneProp ==
  (outputs # <<>> /\ OneSignature(inputs))
    => LET propsSpec == outputs[1]
           valueProps == { i \in 1..Len(propsSpec) :
                             propsSpec[i].type # "children" }
       IN /\ { propsSpec[i].path : i \in valueProps }
               = PathsThatDiffer(inputs[1], inputs)
          /\ \A i, j \in valueProps :
               propsSpec[i].path = propsSpec[j].path => i = j

\* The name generatePropName is to give: the base, or the base followed by
\* the least of 1, 2, ... that makes a name not in use
LeastFreeName(base, used) ==
  IF base \notin used THEN base
  ELSE base \o NumToStr(CHOOSE k \in 1..(Cardinality(used) + 1) :
                          /\ (base \o NumToStr(k)) \notin used
                          /\ \A m \in 1..(k - 1) :
                               (base \o NumToStr(m)) \in used)

\* The base name of the i-th prop of a PropSpec
BaseOf(templateNode, propsSpec, i) ==
  IF propsSpec[i].type = "children" THEN <<"c", "h", "i", "l", "d", "r", "e", "n">>
  ELSE BasePropName(templateNode, propsSpec[i], 0).base

\* C10: the names of a PropSpec are pairwise distinct, each is its base name
\* or, when that is in use by an earlier prop, the base name followed by the
\* first of 1, 2, ... that is not in use, and the inference applied again to
\* the same inputs returns the same PropSpec.
C10_PropNamesDistinctAndStable ==
  outputs # <<>>
    => LET propsSpec == outputs[1]
       IN /\ \A i, j \in 1..Len(propsSpec) :
               propsSpec[i].name = propsSpec[j].name => i = j
          /\ \A i \in 1..Len(propsSpec) :
               propsSpec[i].name
                 = LeastFreeName(BaseOf(inputs[1], propsSpec, i),
                                 { propsSpec[j].name : j \in 1..(i - 1) })
          /\ Len(propsSpec) = Len(DifferingPaths(inputs[1], inputs))
               + (IF \E i \in 1..Len(propsSpec) :
                       propsSpec[i].type = "children" THEN 1 ELSE 0)
          /\ propsSpec = analyzeInstancesForProps(inputs[1], inputs)

\* A base name in use twice over: the third prop of base x is named x2
C10_SecondSuffix ==
  /\ outputs # <<>>
  /\ \E i \in 1..Len(outputs[1]) :
       /\ outputs[1][i].name = <<"x">> \o <<"2">>
       /\ BaseOf(inputs[1], outputs[1], i) = <<"x">>

(***************************************************************************)
(* The run on the pages of a site: menus, styled blocks, layout elements   *)
(* and icons                                                               *)
(***************************************************************************)

Item(kids) == Tag(<<"l", "i">>, <<>>, kids)

\* Three list items of one shape, each a link and the line break after it,
\* that differ in the text and the href of the link
PageMenu ==
  Document(<< Tag(<<"u", "l">>, <<>>,
    << Item(<<Link(<<"/", "h">>, <<"H">>), Text(<<"\n">>)>>),
       Item(<<Link(<<"/", "a">>, <<"A">>), Text(<<"\n">>)>>),
       Item(<<Link(<<"/", "c">>, <<"C">>), Text(<<"\n">>)>>) >>) >>)

\* Three list items of one shape that differ in their text and in their
\* href, each with its text as its only child
PageMenuShort ==
  Document(<< Tag(<<"u", "l">>, <<>>,
    << Tag(<<"l", "i">>, <<Attr(<<"h", "r", "e", "f">>, <<"/", "h">>)>>, <<Text(<<"H">>)>>),
       Tag(<<"l", "i">>, <<Attr(<<"h", "r", "e", "f">>, <<"/", "a">>)>>, <<Text(<<"A">>)>>),
       Tag(<<"l", "i">>, <<Attr(<<"h", "r", "e", "f">>, <<"/", "c">>)>>, <<Text(<<"C">>)>>) >>) >>)

\* Two blocks of one shape that differ in their style attribute
PageStyled ==
  Document(
    << Tag(<<"d", "i", "v">>, <<Attr(<<"s", "t", "y", "l", "e">>, <<"a", ":", "b", ":", "c">>)>>,
           <<H3(<<"A">>), Para(<<"x">>)>>),
       Tag(<<"d", "i", "v">>, <<Attr(<<"s", "t", "y", "l", "e">>, <<"a", ":", "b", ":", "d">>)>>,
           <<H3(<<"A">>), Para(<<"x">>)>>) >>)

\* One element, whose class list holds two layout identifiers
PageLayouts ==
  Document(
    << Tag(<<"d", "i", "v">>,
           <<Attr(<<"c", "l", "a", "s", "s">>,
                  <<"n", "a", "v", "b", "a", "r", " ", "f", "o", "o", "t", "e", "r">>)>>,
           <<Text(<<"A">>)>>) >>)

\* A layout element alone on its page
PageNav == Document(<< Nav(<<Text(<<"A">>)>>) >>)

Shape(d) == Tag(<<"p", "a", "t", "h">>, <<Attr(<<"d">>, d)>>, <<>>)
Group(d) == Tag(<<"g">>, <<>>, <<Shape(d), Shape(d)>>)

\* Three cards whose icons hold two groups of one shape; the icons of the
\* first and the third are the same
PageIconGroups ==
  Document(
    << Card(<<Tag(<<"s", "v", "g">>, <<>>, <<Group(<<"1">>), Group(<<"1">>)>>), Para(<<"x">>)>>),
       Card(<<Tag(<<"s", "v", "g">>, <<>>, <<Group(<<"2">>), Group(<<"2">>)>>), Para(<<"x">>)>>),
       Card(<<Tag(<<"s", "v", "g">>, <<>>, <<Group(<<"1">>), Group(<<"1">>)>>), Para(<<"x">>)>>) >>)

\* Two layout elements of one identifier and one shape that differ in their
\* texts
PageNavPair ==
  Document(<< Nav(<<H3(<<"A">>), Para(<<"x">>)>>),
              Nav(<<H3(<<"B">>), Para(<<"y">>)>>) >>)

\* Two blocks of one shape that each hold two cards; all four cards differ
\* in their heading
PageSections ==
  Document(
    << Tag(<<"d", "i", "v">>, <<>>,
           << Card(<<H3(<<"A">>), Para(<<"x">>)>>), Card(<<H3(<<"B">>), Para(<<"x">>)>>) >>),
       Tag(<<"d", "i", "v">>, <<>>,
           << Card(<<H3(<<"C">>), Para(<<"x">>)>>), Card(<<H3(<<"D">>), Para(<<"x">>)>>) >>) >>)

SiteDocuments ==
  { PageMenu, PageMenuShort, PageStyled, PageLayouts, PageNav, PageNavPair,
    PageIconGroups, PageSections, DocumentWithoutBody, Unreadable }

InitSite ==
  /\ astFiles \in UNION { [1..n -> SiteDocuments] : n \in 1..MaxFiles }
  /\ RunInit
  /\ inputs = <<>>
  /\ outputs = <<>>

SpecSite == InitSite /\ [][Next]_vars

\* The text of the call site of a registered node
CallSite(id) ==
  astNodeToJsx(bodyNode[1], id, FALSE, <<>>, <<>>, localComponentRegistry, NullId)

\* C11: at the call site of every registered node, every attribute prop and
\* every text prop of its component is passed the value found by walking the
\* node along the path of the prop: name={"value"} for the attribute value or
\* the trimmed text, and nothing when the node has no such attribute.
C11_CallSitePassesWalkedValues ==
  \A id \in DOMAIN localComponentRegistry :
    \A spec \in Range(localComponentRegistry[id].propsSpec) :
      LET walked == Walk(NodeAt(bodyNode[1], id), spec.path)
          Passed(value) ==
            Includes(CallSite(id),
                     <<" ">> \o spec.name \o <<"={">> \o JsonString(value) \o <<"}">>)
      IN /\ spec.type = "attribute" /\ walked.k = "value" => Passed(walked.v)
         /\ spec.type = "attribute" /\ walked.k # "value"
              => ~ Includes(CallSite(id), <<" ">> \o spec.name \o <<"={">>)
         /\ spec.type = "textChild" /\ walked.k = "node"
              => Passed(Trim(walked.node.data))

\* C12: over a whole batch no icon file is written twice: the writes started
\* by the renderings (pages, definition bodies, call sites) are for pairwise
\* different content hashes.
C12_OneWritePerIconContent ==
  \A i, j \in 1..Len(svgWrites) :
    svgWrites[i].file = svgWrites[j].file => i = j

\* C13: when 'Conversion Complete' has been logged, no write of an icon file
\* is still pending.
C13_CompleteAfterEveryWrite ==
  pc = "done" => \A i \in 1..Len(svgWrites) : svgWrites[i].state # "pending"

\* What the rendering that the run is about to do does: the body of the next
\* candidate (line 373), or the page when no candidate is left (line 811)
NextRendering ==
  IF candidateIndex <= Len(componentCandidates)
    THEN RenderTrace(bodyNode[1], componentCandidates[candidateIndex].astNode,
                     TRUE, componentCandidates[candidateIndex].propsSpec, <<>>,
                     localComponentRegistry,
                     componentCandidates[candidateIndex].astNode)
    ELSE PageTrace(bodyNode[1], localComponentRegistry)

\* C14: no rendering of a candidate's body or of the page inlines a node that
\* is in the per-tree registry by then.
C14_RegisteredNodesNeverInlined ==
  pc = "identify"
    => \A trace \in {NextRendering} :
         \A i \in 1..Len(trace) :
           trace[i].event = "inline"
             => trace[i].node \notin DOMAIN localComponentRegistry

\* The node inner lies strictly inside the subtree of the node outer
StrictlyInside(inner, outer) ==
  /\ Len(inner) > Len(outer)
  /\ SubSeq(inner, 1, Len(outer)) = outer

\* The instances of the other candidates that lie strictly inside the
\* template of the candidate that is rendered next
NestedInstances ==
  { inst \in UNION { Range(componentCandidates[k].instances) :
                       k \in (1..Len(componentCandidates)) \ {candidateIndex} } :
      StrictlyInside(inst, componentCandidates[candidateIndex].astNode) }

\* C15: the candidates of a tree are in non-decreasing order of the node
\* count of their template, and when the body of a candidate is rendered every
\* instance of another candidate strictly inside its template is registered
\* and is not inlined by the rendering.
C15_SmallestFirstSoNestedAreReferenced ==
  pc = "identify"
    => /\ \A i, j \in 1..Len(componentCandidates) :
            i < j => countNodes(NodeAt(bodyNode[1], componentCandidates[i].astNode))
                       <= countNodes(NodeAt(bodyNode[1], componentCandidates[j].astNode))
       /\ candidateIndex <= Len(componentCandidates)
            => \A trace \in {NextRendering} :
                 \A inst \in NestedInstances :
                   /\ inst \in DOMAIN localComponentRegistry
                   /\ \A i \in 1..Len(trace) :
                        trace[i].node = inst => trace[i].event # "inline"

\* The body of a layout element is about to be rendered, and the rendering
\* reaches an instance of a repeated block inside it as a reference
C15_NestedBlockReferenced ==
  /\ pc = "identify"
  /\ candidateIndex <= Len(componentCandidates)
  /\ componentCandidates[candidateIndex].type = "layout"
  /\ \E trace \in {NextRendering} :
       \E i \in 1..Len(trace) :
         /\ trace[i].node \in NestedInstances
         /\ trace[i].event = "reference"

\* The elements of the tree that carry a layout identifier
LayoutElements ==
  { id \in Range(PreOrder(bodyNode[1], <<>>)) :
      \E k \in 1..Len(LAYOUT_CLASSES_OR_IDS) :
        MatchesLayout(NodeAt(bodyNode[1], id), LAYOUT_CLASSES_OR_IDS[k]) }

\* The layout candidates found for the element e
LayoutCandidatesOf(e) ==
  { k \in 1..Len(componentCandidates) :
      /\ componentCandidates[k].type = "layout"
      /\ e \in Range(componentCandidates[k].instances) }

MenuItems == << <<1, 1>>, <<1, 2>>, <<1, 3>> >>

\* The body holds one list of exactly three li elements of one shape, no two
\* of them equal
ThreeItemMenu ==
  /\ Len(bodyNode[1].children) = 1
  /\ bodyNode[1].children[1].type = "tag"
  /\ Len(bodyNode[1].children[1].children) = 3
  /\ \A i \in 1..3 :
       /\ NodeAt(bodyNode[1], MenuItems[i]).type = "tag"
       /\ NodeAt(bodyNode[1], MenuItems[i]).name = <<"l", "i">>
       /\ getStructuralSignature(NodeAt(bodyNode[1], MenuItems[i]))
            = getStructuralSignature(NodeAt(bodyNode[1], MenuItems[1]))
  /\ \A i, j \in 1..3 :
       i # j => NodeAt(bodyNode[1], MenuItems[i]) # NodeAt(bodyNode[1], MenuItems[j])

\* The number of places of the text s where sub occurs
Occurrences(s, sub) ==
  Cardinality({ i \in 0..(Len(s) - Len(sub)) : SubSeq(s, i + 1, i + Len(sub)) = sub })

\* The tree has exactly one candidate, with the three items as its instances
\* and exactly two props, one for the attribute href and one for a text, and
\* the page holds exactly three call sites of the component, each passing the
\* href and the text of its own item
OneComponentThreeCallSites ==
  /\ Len(componentCandidates) = 1
  /\ componentCandidates[1].instances = MenuItems
  /\ \E a, t \in 1..2 :
       /\ a # t
       /\ Len(componentCandidates[1].propsSpec) = 2
       /\ componentCandidates[1].propsSpec[a].type = "attribute"
       /\ componentCandidates[1].propsSpec[a].path[
            Len(componentCandidates[1].propsSpec[a].path)].s = <<"h", "r", "e", "f">>
       /\ componentCandidates[1].propsSpec[t].type = "textChild"
  /\ \A i \in 1..3 : MenuItems[i] \in DOMAIN localComponentRegistry
  /\ \E page \in {PageJsxContent(bodyNode[1], localComponentRegistry)} :
       /\ Occurrences(page, <<"<">> \o localComponentRegistry[MenuItems[1]].name) = 3
       /\ \A i \in 1..3 :
            \E site \in {CallSite(MenuItems[i])} :
              /\ Includes(page, site)
              /\ StartsWith(site, <<"<">> \o localComponentRegistry[MenuItems[i]].name)
              /\ \A j \in 1..3 : i # j => site # CallSite(MenuItems[j])
              /\ \A spec \in Range(localComponentRegistry[MenuItems[i]].propsSpec) :
                   \E w \in {Walk(NodeAt(bodyNode[1], MenuItems[i]), spec.path)} :
                     Includes(site,
                       <<" ">> \o spec.name \o <<"={">>
                         \o JsonString(IF spec.type = "attribute"
                                         THEN w.v ELSE Trim(w.node.data))
                         \o <<"}">>)

\* The page of the tree is about to be written: every candidate is registered
PageReady ==
  /\ pc = "identify"
  /\ candidateIndex > Len(componentCandidates)

C18_NoFailureAbortsTheBatch ==
  pc \in {"done", "rejected"} => fileIndex >= Len(astFiles)

\* The tree has no body root: no html element among the children of the
\* document, or no body element among the children of its first html element
NoBodyRoot(ast) ==
  \/ ~ \E i \in 1..Len(ast.children) :
         ast.children[i].type = "tag" /\ ast.children[i].name = <<"h", "t", "m", "l">>
  \/ \E i \in 1..Len(ast.children) :
       /\ ast.children[i].type = "tag" /\ ast.children[i].name = <<"h", "t", "m", "l">>
       /\ \A h \in 1..(i - 1) :
            ~ (ast.children[h].type = "tag"
                 /\ ast.children[h].name = <<"h", "t", "m", "l">>)
       /\ ~ \E j \in 1..Len(ast.children[i].children) :
              /\ ast.children[i].children[j].type = "tag"
              /\ ast.children[i].children[j].name = <<"b", "o", "d", "y">>

\* The loop of main stands before a readable tree that has no body root
BeforeTreeWithoutBody ==
  /\ pc = "main"
  /\ fileIndex <= Len(astFiles)
  /\ astFiles[fileIndex] # Unreadable
  /\ NoBodyRoot(astFiles[fileIndex])

\* C19: a tree without a body root is skipped: the step the run takes on it
\* emits no component definition and no page, leaves both global registries
\* unchanged and moves the loop of main to the next tree; no page of such a
\* tree is ever written.
C19_TreeWithoutBodyIsSkipped ==
  /\ [][ BeforeTreeWithoutBody
           => /\ pc' = "main"
              /\ componentFiles' = componentFiles
              /\ pageFiles' = pageFiles
              /\ globalGeneratedComponentSignatures' = globalGeneratedComponentSignatures
              /\ globalNameUsage' = globalNameUsage
              /\ \/ fileIndex' = fileIndex + 1
                 \/ fileIndex' = fileIndex /\ svgWrites' # svgWrites ]_vars
  /\ [](\A k \in 1..Len(astFiles) :
          (astFiles[k] # Unreadable /\ NoBodyRoot(astFiles[k]))
            => toPascalCase(PageNameOf(k)) \notin DOMAIN pageFiles)

\* A batch whose first tree has no body root has run to its end: the first
\* tree left no page and the second tree has its page
C19_SkippedThenContinued ==
  /\ pc = "done"
  /\ Len(astFiles) = 2
  /\ astFiles[1] # Unreadable
  /\ NoBodyRoot(astFiles[1])
  /\ toPascalCase(PageNameOf(1)) \notin DOMAIN pageFiles
  /\ toPascalCase(PageNameOf(2)) \in DOMAIN pageFiles

\* The node lies inside the subtree of an svg element
InsideIcon(id) ==
  \E n \in 0..(Len(id) - 1) :
    /\ NodeAt(bodyNode[1], SubSeq(id, 1, n)).type = "tag"
    /\ NodeAt(bodyNode[1], SubSeq(id, 1, n)).name = <<"s", "v", "g">>

\* The place of a node in the depth-first order of the tree
DepthFirstPlace(id) ==
  CHOOSE i \in 1..Len(PreOrder(bodyNode[1], <<>>)) : PreOrder(bodyNode[1], <<>>)[i] = id

\* C20: every repetition candidate has at least the configured minimum
\* number of instances; each instance is an element other than svg, outside
\* every svg subtree, with at least the configured minimum number of
\* children and the signature of the template; the template is the first
\* instance in depth-first order; and the single instance of every layout
\* candidate carries the layout identifier as a class token or as its id.
C20_CandidatesAreWellFormed ==
  pc = "identify"
    => \A k \in 1..Len(componentCandidates) :
         \E c \in {componentCandidates[k]} :
           /\ c.type = "repetition"
                => /\ Len(c.instances) >= MIN_REPETITIONS_FOR_COMPONENT
                   /\ c.astNode = c.instances[1]
                   /\ \A i \in 1..Len(c.instances) :
                        \E node \in {NodeAt(bodyNode[1], c.instances[i])} :
                          /\ node.type = "tag"
                          /\ node.name # <<"s", "v", "g">>
                          /\ ~ InsideIcon(c.instances[i])
                          /\ Len(node.children) >= MIN_CHILDREN_FOR_REUSABLE_BY_REPETITION
                          /\ getStructuralSignature(node)
                               = getStructuralSignature(NodeAt(bodyNode[1], c.astNode))
                          /\ i > 1 => DepthFirstPlace(c.astNode)
                                        < DepthFirstPlace(c.instances[i])
           /\ c.type = "layout"
                => /\ Len(c.instances) = 1
                   /\ \E i \in 1..Len(LAYOUT_CLASSES_OR_IDS) :
                        \E node \in {NodeAt(bodyNode[1], c.instances[1])} :
                          /\ c.nameAttempt = toPascalCase(LAYOUT_CLASSES_OR_IDS[i])
                                               \o <<"L", "a", "y", "o", "u", "t">>
                          /\ \/ LAYOUT_CLASSES_OR_IDS[i] \in ClassTokens(node)
                             \/ /\ HasAttr(node, <<"i", "d">>)
                                /\ AttrVal(node, <<"i", "d">>) = LAYOUT_CLASSES_OR_IDS[i]

\* A tree has a repetition candidate although it also holds, inside an svg
\* element, elements of one signature with enough children that repeat often
\* enough
C20_RepeatedGroupsInsideIcon ==
  /\ pc = "identify"
  /\ \E k \in 1..Len(componentCandidates) : componentCandidates[k].type = "repetition"
  /\ \E a, b \in Range(PreOrder(bodyNode[1], <<>>)) :
       /\ a # b
       /\ InsideIcon(a)
       /\ InsideIcon(b)
       /\ NodeAt(bodyNode[1], a).type = "tag"
       /\ Len(NodeAt(bodyNode[1], a).children) >= MIN_CHILDREN_FOR_REUSABLE_BY_REPETITION
       /\ getStructuralSignature(NodeAt(bodyNode[1], a))
            = getStructuralSignature(NodeAt(bodyNode[1], b))

(***************************************************************************)
(* The rendering of a text node on its own                                 *)
(***************************************************************************)

\* The longest text rendered
MaxTextLen == 4

\* The characters of the texts: a letter, a blank and both braces
TextChars == {"a", " ", "{", "}"}

Texts == UNION { [1..n -> TextChars] : n \in 0..MaxTextLen }

InitText ==
  /\ astFiles = <<>>
  /\ RunInit
  /\ inputs \in Texts
  /\ outputs = <<>>

\* astNodeToJsx on a text node of a page, outside every definition body
ApplyText ==
  /\ outputs = <<>>
  /\ outputs' = << astNodeToJsx(Tag(<<"b", "o", "d", "y">>, <<>>, <<Text(inputs)>>),
                                <<1>>, FALSE, <<>>, <<>>, EmptyMap, NullId) >>
  /\ UNCHANGED << astFiles, inputs >>
  /\ UNCHANGED runVars

NextText == ApplyText

SpecText == InitText /\ [][NextText]_vars

\* The text with each brace as an expression of its own and every other
\* character unchanged
RECURSIVE BracesAsExpressions(_)
BracesAsExpressions(s) ==
  IF s = <<>> THEN <<>>
  ELSE (IF s[1] = "{" THEN <<"{", "\"", "{", "\"", "}">>
        ELSE IF s[1] = "}" THEN <<"{", "\"", "}", "\"", "}">>
        ELSE <<s[1]>>)
       \o BracesAsExpressions(Tail(s))

\* C21: a non-blank text rendered as a literal has each '{' emitted as
\* {"{"}, each '}' as {"}"} and every other character unchanged.
C21_BracesEscapedOnce ==
  (outputs # <<>> /\ Trim(inputs) # <<>>)
    => outputs[1] = BracesAsExpressions(inputs)

\* C22: within one tree a registered node is never registered again: its
\* registry entry stays as it was set while the candidates of the tree are
\* processed, and when the page is rendered every definition emitted for the
\* tree is the registered component of each of its instances.
C22_NodeClaimedByOneComponent ==
  /\ [][ (pc = "identify" /\ pc' = "identify")
           => \A id \in DOMAIN localComponentRegistry :
                /\ id \in DOMAIN localComponentRegistry'
                /\ localComponentRegistry'[id] = localComponentRegistry[id] ]_vars
  /\ [](PageReady
          => \A d \in 1..Len(finalComponentDefsForThisPage) :
               \A inst \in Range(finalComponentDefsForThisPage[d].candidate.instances) :
                 /\ inst \in DOMAIN localComponentRegistry
                 /\ localComponentRegistry[inst].name
                      = finalComponentDefsForThisPage[d].name)

\* The rendered body refers to the prop of this name: as the value of a text
\* or of an attribute with the template's value as its default, or as the
\* source of an icon
RefersToProp(jsxBody, name) ==
  \/ Includes(jsxBody, <<"{">> \o name \o <<" || ">>)
  \/ Includes(jsxBody, <<"={">> \o name \o <<" || ">>)
  \/ Includes(jsxBody, <<" style={">> \o name \o <<" || ">>)
  \/ Includes(jsxBody, <<"<img src={">> \o name \o <<"} alt=">>)

\* C23: every attribute, text and icon prop of an emitted definition whose
\* PropSpec has no children passthrough is referred to in the rendered body
\* of the definition, also when its path lies inside a nested instance of a
\* smaller registered component.
C23_DeclaredPropsAreReferenced ==
  \A d \in 1..Len(finalComponentDefsForThisPage) :
    \E def \in {finalComponentDefsForThisPage[d]} :
      (\A spec \in Range(def.candidate.propsSpec) : spec.type # "children")
        => \A spec \in Range(def.candidate.propsSpec) :
             spec.type \in {"attribute", "textChild", "svg"}
               => RefersToProp(def.jsxBody, spec.name)

====
